---- MODULE Spec2Model ----
(***************************************************************************)
(* Model of the CFSBK workout ETL: the canonical builder                   *)
(* (cfa_etl/canonical.py), the oracle adapter (cfa_etl/llm_tagging.py) and *)
(* the oracle runner (scripts/llm_tag_workouts.py).                        *)
(***************************************************************************)
EXTENDS Integers, Sequences, FiniteSets, TLC

VARIABLES
    \* ---- cfa_etl.canonical.build_canonical
    raw_posts,      \* the raw posts handed to build_canonical
    canonical,      \* the list `canonical` being built
    idx,            \* position of the numbering / milestone loops
    workout_no,     \* the running counter `workout_no`
    cpc,            \* position inside build_canonical
    \* ---- cfa_etl.llm_tagging._validate_llm_result
    v_obj,          \* the parsed oracle response `obj`
    v_labels,       \* the canonical labels `movement_labels`
    v_out,          \* what the call produced: a result or a raised error
    vpc,            \* "call" before the call, "done" after it
    \* ---- cfa_etl.llm_tagging.tag_post_with_llm
    t_max_retries,  \* cfg.max_retries
    attempt,        \* the loop variable `attempt`
    calls,          \* oracle calls made so far
    failures,       \* calls that raised (HTTP, JSON or schema error)
    last_err,       \* `last_err`
    t_last,         \* what the latest oracle call produced
    t_result,       \* the value returned to the caller
    tpc,            \* position inside tag_post_with_llm
    \* ---- scripts/llm_tag_workouts.py main
    r_args,         \* the parsed command line `args`
    candidates,     \* the post ids of `candidates`, in input order
    regex_ids,      \* the ids `regex_by_id` has an entry for
    seen_ids,       \* `seen_ids`
    seen_judge_ids, \* `seen_judge_ids`
    cache,          \* the ids whose cache file {pid}.json exists
    judge_cache,    \* the ids whose cache file judge_{pid}.json exists
    cache_writes,   \* per id, the writes of {pid}.json made by this run
    llm_calls,      \* the workers that called tag_post_with_llm
    out_log,        \* the text of args.out: record ids and newlines
    judge_log,      \* the text of args.judge_out
    out_lock,       \* holder of `out_lock` (0: free)
    judge_lock,     \* holder of `judge_lock` (0: free)
    counts,         \* `counts`
    it,             \* the iterator `it`: index of the next candidate
    fut,            \* per candidate, the position of its worker call
    running,        \* the futures main waits on
    done_set,       \* the futures of `done` not handled yet
    out_json,       \* the regenerated JSON array (its ids), once written
    mpc,            \* position of main
    \* ---- a helper function called on its own
    fn,             \* the function called
    fn_args,        \* its arguments
    fn_ret          \* << >> during the call, then << the value returned >>

canonVars == <<raw_posts, canonical, idx, workout_no, cpc>>
valVars == <<v_obj, v_labels, v_out, vpc>>
tagVars ==
    <<t_max_retries, attempt, calls, failures, last_err, t_last, t_result, tpc>>

fileVars == <<cache, judge_cache, cache_writes, out_log, judge_log, out_json>>
sharedVars == <<seen_ids, seen_judge_ids, out_lock, judge_lock, counts, llm_calls>>
poolVars == <<it, fut, running, done_set, mpc>>
inputVars == <<r_args, candidates, regex_ids>>
runVars == <<inputVars, fileVars, sharedVars, poolVars>>

callVars == <<fn, fn_args, fn_ret>>

vars == <<canonVars, valVars, tagVars, runVars, callVars>>

nonCanonVars == <<valVars, tagVars, runVars, callVars>>
nonValVars == <<canonVars, tagVars, runVars, callVars>>
nonTagVars == <<canonVars, valVars, runVars, callVars>>
nonRunVars == <<canonVars, valVars, tagVars, callVars>>
nonCallVars == <<canonVars, valVars, tagVars, runVars>>

\* Python's None (a missing id, the workout_no of a rest day).
None == -1

-----------------------------------------------------------------------------
(* Bounds of the build_canonical inputs.                                   *)

MaxPosts == 3

\* Post ids: None (the raw post has no "id") or a WordPress id.
PostIds == {None, 1, 2}

\* Workout dates as derive_workout_date returns them: 0 is the empty
\* string, 1 and 2 are ISO dates in ascending order.
PostDates == {0, 1, 2}

\* Long batches: `n` posts in ascending order of id, of which every
\* `period`-th is a rest day (period 0: no rest day).
Batches ==
    { [n |-> 1000, period |-> 0], [n |-> 1170, period |-> 7],
      [n |-> 2501, period |-> 0], [n |-> 5002, period |-> 0] }

RawPost == [id : PostIds, date : PostDates, rest : BOOLEAN]

SmallInputs == UNION { [1..n -> RawPost] : n \in 0..MaxPosts }

BatchInput(b) ==
    [i \in 1..b.n |->
        [id |-> i, date |-> 1, rest |-> (b.period > 0 /\ i % b.period = 0)]]

-----------------------------------------------------------------------------
(* build_canonical                                                         *)

\* The record appended for one post (lines 24-54): the fields the ordering
\* and the numbering read.
BaseRecord(post) ==
    [id |-> post.id, date |-> post.date, is_rest_day |-> post.rest,
     seq_no |-> None, workout_no |-> None, milestones |-> <<>>]

\* key=lambda x: (x.get("date") or "", x.get("id") or 0)
DateKey(x) == x.date
IdKey(x) == IF x.id = None THEN 0 ELSE x.id

KeyLess(a, b) ==
    \/ DateKey(a) < DateKey(b)
    \/ DateKey(a) = DateKey(b) /\ IdKey(a) < IdKey(b)

\* canonical.sort(key=...), line 56.
SortCanonicalUnsorted(recs) == recs

SortCanonical(recs) == SortSeq(recs, KeyLess)

\* Lines 62-66: the counter after one record, and the record as numbered.
AdvanceWorkoutNoAlways(rec, wn) == wn + 1

AdvanceWorkoutNo(rec, wn) == IF ~rec.is_rest_day THEN wn + 1 ELSE wn

NumberedRecord(rec, i, wn) ==
    [rec EXCEPT !.seq_no = i,
                !.workout_no = IF ~rec.is_rest_day
                                 THEN AdvanceWorkoutNo(rec, wn) ELSE None]

Milestone1 == 1000
Milestone2 == 2500
Milestone3 == 5000

\* milestone_targets = {1000, 2500, 5000, total_workouts}, line 69.
MilestoneTargetsFixedOnly(total_workouts) ==
    {Milestone1, Milestone2, Milestone3}

MilestoneTargets(total_workouts) ==
    {Milestone1, Milestone2, Milestone3, total_workouts}

MilestoneLabel(wn) == ToString(wn) \o "th workout"

IsMilestone(wn, targets) == wn # None /\ wn \in targets

IdleCanon ==
    /\ raw_posts = <<>>
    /\ canonical = <<>>
    /\ idx = 0
    /\ workout_no = 0
    /\ cpc = "idle"

IdleVal ==
    /\ v_obj = <<>>
    /\ v_labels = {}
    /\ v_out = <<>>
    /\ vpc = "idle"

IdleTag ==
    /\ t_max_retries = 0
    /\ attempt = 0
    /\ calls = 0
    /\ failures = 0
    /\ last_err = "none"
    /\ t_last = << >>
    /\ t_result = << >>
    /\ tpc = "idle"

IdleRun ==
    /\ r_args = << >>
    /\ candidates = << >>
    /\ regex_ids = {}
    /\ seen_ids = {}
    /\ seen_judge_ids = {}
    /\ cache = {}
    /\ judge_cache = {}
    /\ cache_writes = << >>
    /\ llm_calls = {}
    /\ out_log = << >>
    /\ judge_log = << >>
    /\ out_lock = 0
    /\ judge_lock = 0
    /\ counts = << >>
    /\ it = 0
    /\ fut = << >>
    /\ running = {}
    /\ done_set = {}
    /\ out_json = << >>
    /\ mpc = "idle"

IdleCall ==
    /\ fn = "idle"
    /\ fn_args = << >>
    /\ fn_ret = << >>

InitCanon ==
    /\ raw_posts \in SmallInputs \cup { BatchInput(b) : b \in Batches }
    /\ canonical = <<>>
    /\ idx = 0
    /\ workout_no = 0
    /\ cpc = "build"
    /\ IdleVal
    /\ IdleTag
    /\ IdleRun
    /\ IdleCall

\* Lines 24-56: one record per post, then the sort.
BuildRecords ==
    /\ cpc = "build"
    /\ canonical' =
         SortCanonical([i \in 1..Len(raw_posts) |-> BaseRecord(raw_posts[i])])
    /\ idx' = 1
    /\ workout_no' = 0
    /\ cpc' = "number"
    /\ UNCHANGED <<raw_posts, nonCanonVars>>

\* Lines 60-66: one iteration of the numbering loop.
NumberStep ==
    /\ cpc = "number"
    /\ idx <= Len(canonical)
    /\ workout_no' = AdvanceWorkoutNo(canonical[idx], workout_no)
    /\ canonical' = [canonical EXCEPT
          ![idx] = NumberedRecord(canonical[idx], idx, workout_no)]
    /\ idx' = idx + 1
    /\ UNCHANGED <<raw_posts, cpc, nonCanonVars>>

\* Line 68-69: the numbering loop is over; total_workouts = workout_no.
NumberDone ==
    /\ cpc = "number"
    /\ idx > Len(canonical)
    /\ idx' = 1
    /\ cpc' = "milestone"
    /\ UNCHANGED <<raw_posts, canonical, workout_no, nonCanonVars>>

\* Lines 70-73: one iteration of the milestone loop.
MilestoneStep ==
    /\ cpc = "milestone"
    /\ idx <= Len(canonical)
    /\ LET wn == canonical[idx].workout_no
       IN  canonical' =
             IF IsMilestone(wn, MilestoneTargets(workout_no))
             THEN [canonical EXCEPT
                     ![idx] = [canonical[idx] EXCEPT
                        !.milestones = Append(canonical[idx].milestones,
                                              MilestoneLabel(wn))]]
             ELSE canonical
    /\ idx' = idx + 1
    /\ UNCHANGED <<raw_posts, workout_no, cpc, nonCanonVars>>

\* Line 75: return canonical.
ReturnCanonical ==
    /\ cpc = "milestone"
    /\ idx > Len(canonical)
    /\ cpc' = "done"
    /\ UNCHANGED <<raw_posts, canonical, idx, workout_no, nonCanonVars>>

NextCanon ==
    \/ BuildRecords
    \/ NumberStep
    \/ NumberDone
    \/ MilestoneStep
    \/ ReturnCanonical

SpecCanon == InitCanon /\ [][NextCanon]_vars

-----------------------------------------------------------------------------
(* Properties of build_canonical                                           *)

NonRest(rec) == ~rec.is_rest_day

\* The non-rest-day records of the output, in output order.
Workouts == SelectSeq(canonical, NonRest)

\* The sort key of the claim: (date or "", id or 0); the empty date is 0.
ClaimKeyLess(a, b) ==
    LET ida == IF a.id = None THEN 0 ELSE a.id
        idb == IF b.id = None THEN 0 ELSE b.id
    IN  a.date < b.date \/ (a.date = b.date /\ ida < idb)

\* C1: the returned records carry seq_no 1..N, each once, in list order, and
\* the list is in ascending order of (date or "", id or 0): no record is
\* followed by one with a smaller key, so a smaller key has the smaller seq_no.
C1_SeqNoAscending ==
    cpc = "done" =>
        /\ Len(canonical) = Len(raw_posts)
        /\ \A i \in 1..Len(canonical) : canonical[i].seq_no = i
        /\ \A i \in 1..(Len(canonical) - 1) :
              ~ClaimKeyLess(canonical[i + 1], canonical[i])

\* C1 witness: a batch given out of key order, with a missing id and an
\* empty date, has been sorted and numbered.
C1_Witness ==
    /\ cpc = "done"
    /\ Len(raw_posts) = 3
    /\ ClaimKeyLess(raw_posts[3], raw_posts[1])
    /\ \E i \in 1..3 : raw_posts[i].id = None
    /\ \E i \in 1..3 : raw_posts[i].date = 0
    /\ canonical[3].seq_no = 3

\* C2: the non-rest-day records carry workout_no 1..M in the order of their
\* seq_no, M being their number; every rest-day record has workout_no None.
C2_WorkoutNoSkipsRestDays ==
    cpc = "done" =>
        /\ \A k \in 1..Len(Workouts) : Workouts[k].workout_no = k
        /\ \A k \in 1..(Len(Workouts) - 1) :
              Workouts[k].seq_no < Workouts[k + 1].seq_no
        /\ \A i \in 1..Len(canonical) :
              canonical[i].is_rest_day => canonical[i].workout_no = None

\* C2 witness: a rest day between two workouts did not consume a number.
C2_Witness ==
    /\ cpc = "done"
    /\ Len(canonical) = 3
    /\ ~canonical[1].is_rest_day /\ canonical[1].workout_no = 1
    /\ canonical[2].is_rest_day /\ canonical[2].workout_no = None
    /\ ~canonical[3].is_rest_day /\ canonical[3].workout_no = 2

\* C3: a record carries the label "{workout_no}th workout", once, exactly
\* when its workout_no is 1000, 2500, 5000 or M (the number of non-rest-day
\* records); every other record, and every rest day, carries no label.
C3_MilestonesExactlyOnTargets ==
    cpc = "done" =>
        \A i \in 1..Len(canonical) :
            LET wn == canonical[i].workout_no
            IN  canonical[i].milestones =
                  IF /\ ~canonical[i].is_rest_day
                     /\ wn \in {1000, 2500, 5000, Len(Workouts)}
                  THEN << ToString(wn) \o "th workout" >>
                  ELSE << >>

\* C3 witness: in a batch with rest days and more than 1000 workouts the
\* 1000th workout and the last workout are both labelled.
C3_Witness ==
    /\ cpc = "done"
    /\ Len(Workouts) > 1000
    /\ Len(Workouts) < Len(canonical)
    /\ Workouts[1000].milestones = << "1000th workout" >>
    /\ Workouts[Len(Workouts)].milestones # << >>
    /\ Workouts[999].milestones = << >>

-----------------------------------------------------------------------------
(* _validate_llm_result                                                    *)

Required ==
    {"id", "date", "title", "link", "is_rest_day", "components",
     "component_tags", "format", "movements", "unmapped_movements", "notes"}

\* A list entry that is not a string (a number, null, an object).
NonStr == "<non-str>"

IsStr(m) == m # NonStr

\* str.strip().lower() on the strings of the model.
StripLower(m) ==
    CASE m = "Row" -> "row"
      [] m = " erg " -> "erg"
      [] m = "AMRAP" -> "amrap"
      [] m = " For Time " -> "for time"
      [] m = "Tabata" -> "tabata"
      [] m = "Chipper" -> "chipper"
      [] m = "N/A" -> "n/a"
      [] OTHER -> m

\* str.strip() on the notes of the model.
Strip(t) ==
    CASE t = " ok " -> "ok"
      [] t = " " -> ""
      [] OTHER -> t

\* Python's string order on the strings of the model (for sorted()).
StrRank(m) ==
    CASE m = "" -> 0
      [] m = " erg " -> 1
      [] m = "Row" -> 2
      [] m = "burpee" -> 3
      [] m = "row (erg)" -> 4
      [] m = "zumba" -> 5
      [] OTHER -> 6

StrLess(a, b) == StrRank(a) < StrRank(b)

\* fmt_map, lines 323-336.
FmtMap ==
    [k \in {"amrap", "for time", "fortime", "for_time", "emom", "interval",
            "intervals", "tabata", "", "none", "n/a"} |->
        CASE k \in {"amrap"} -> "amrap"
          [] k \in {"for time", "fortime", "for_time"} -> "for time"
          [] k \in {"emom"} -> "emom"
          [] k \in {"interval", "intervals", "tabata"} -> "interval"
          [] OTHER -> ""]

NormalizeFormat(f) ==
    LET fmt == StripLower(f)
    IN  IF fmt \in DOMAIN FmtMap THEN FmtMap[fmt] ELSE ""

AllowedTags ==
    {"strength", "conditioning", "assistance", "partner", "floater_strength"}

\* alias_to_canonical, lines 342-358.
AliasToCanonical ==
    [k \in {"row", "rowing", "rower", "erg", "power snatch",
            "hang power snatch", "power clean", "hang power clean",
            "shoulder press", "db bench", "db bench press", "dumbbell bench",
            "dumbbell bench press", "renegade row", "renegade rows"} |->
        CASE k \in {"row", "rowing", "rower", "erg"} -> "row (erg)"
          [] k \in {"power snatch", "hang power snatch"} -> "snatch"
          [] k \in {"power clean", "hang power clean"} -> "clean"
          [] k \in {"shoulder press"} -> "strict press"
          [] k \in {"db bench", "db bench press", "dumbbell bench",
                    "dumbbell bench press"} -> "bench press"
          [] OTHER -> "row (weighted)"]

\* alias_to_canonical.get(key, m), line 364.
AliasOrSelfNoAlias(m) == m

AliasOrSelf(m) ==
    LET key == StripLower(m)
    IN  IF key \in DOMAIN AliasToCanonical THEN AliasToCanonical[key] ELSE m

\* [x for x in s if not (x in seen or seen.add(x))], lines 390-393.
RECURSIVE DedupeFrom(_, _, _)
DedupeFrom(s, i, acc) ==
    IF i > Len(s) THEN acc
    ELSE IF \E j \in 1..Len(acc) : acc[j] = s[i]
         THEN DedupeFrom(s, i + 1, acc)
         ELSE DedupeFrom(s, i + 1, Append(acc, s[i]))

Dedupe(s) == DedupeFrom(s, 1, <<>>)

SeqRange(s) == { s[i] : i \in 1..Len(s) }

\* sorted(set(...)) as a list.
RECURSIVE SortedSeqOf(_)
SortedSeqOf(S) ==
    IF S = {} THEN <<>>
    ELSE LET least == CHOOSE x \in S : \A y \in S : ~StrLess(y, x)
         IN  <<least>> \o SortedSeqOf(S \ {least})

\* "floater" in heading.lower() and "strength" in heading.lower().
IsFloaterHeading(h) == h \in {"Floater Strength", "FLOATER STRENGTH"}

\* tag_movements over the joined details of some components: each component
\* of the model carries the labels the pattern library finds in its details.
TaggedIn(comps) == UNION { comps[i].found : i \in 1..Len(comps) }

NoteText(t) == [kind |-> "text", text |-> t, names |-> <<>>]
NoteCoerced(names) == [kind |-> "coerced", text |-> "", names |-> names]
NoteRemoved(names) == [kind |-> "removed", text |-> "", names |-> names]

\* The notes as the list of their space-separated parts: the response's own
\* text (stripped; nothing when empty), then the parenthesised notes.
NotesOf(t) == IF Strip(t) = "" THEN <<>> ELSE << NoteText(Strip(t)) >>

Raised(err) == [ok |-> FALSE, error |-> err]

\* unmapped.extend(unknown), line 383.
CoerceUnknownDropped(unmapped, unknown) == unmapped

CoerceUnknown(unmapped, unknown) == unmapped \o unknown

\* Lines 338-393: alias mapping, coercion of unknown labels, de-duplication.
NormalizeMovements(obj, labels) ==
    LET movements == SelectSeq(obj.movements, IsStr)
        normalized == [i \in 1..Len(movements) |-> AliasOrSelf(movements[i])]
        unmapped0 == SelectSeq(obj.unmapped_movements, IsStr)
        MapsClean(m) ==
            LET key == StripLower(m)
            IN  key \in DOMAIN AliasToCanonical
                /\ AliasToCanonical[key] \in labels
        Stays(m) == ~MapsClean(m)
        moved == SelectSeq(unmapped0, MapsClean)
        movements2 ==
            normalized \o [i \in 1..Len(moved) |-> AliasOrSelf(moved[i])]
        unmapped1 == SelectSeq(unmapped0, Stays)
        Known(m) == m \in labels
        Unknown(m) == m \notin labels
        unknown == SelectSeq(movements2, Unknown)
        NonEmpty(m) == IsStr(m) /\ m # ""
    IN  [movements |-> Dedupe(SelectSeq(movements2, Known)),
         unmapped_movements |->
            Dedupe(SelectSeq(CoerceUnknown(unmapped1, unknown), NonEmpty)),
         coerced |-> unknown # <<>>,
         notes |->
            IF unknown # <<>>
            THEN NotesOf(obj.notes)
                   \o << NoteCoerced(SortedSeqOf(SeqRange(unknown))) >>
            ELSE << NoteText(obj.notes) >>]

\* Lines 395-424: the labels tagged only in floater-strength components.
FloaterOnly(components) ==
    LET IsFloater(c) == IsFloaterHeading(c.component)
        NotFloater(c) == ~IsFloaterHeading(c.component)
        floater_components == SelectSeq(components, IsFloater)
    IN  IF floater_components = <<>> THEN {}
        ELSE TaggedIn(floater_components)
               \ TaggedIn(SelectSeq(components, NotFloater))

\* Lines 309-311: every required key is in obj.
HasRequiredKeysUnchecked(obj) == TRUE

HasRequiredKeys(obj) == Required \subseteq obj.keys

ValidateLLMResult(obj, labels) ==
    IF ~HasRequiredKeys(obj) THEN Raised("Missing key")
    ELSE IF ~obj.components_is_list THEN Raised("components must be a list")
    ELSE IF \E i \in 1..Len(obj.components) : ~obj.components[i].wellformed
    THEN Raised("components entries must be objects with component/details")
    ELSE
      LET norm == NormalizeMovements(obj, labels)
          floater_only == FloaterOnly(obj.components)
          Kept(m) == m \notin floater_only
          after == SelectSeq(norm.movements, Kept)
          removed == SeqRange(norm.movements) \ SeqRange(after)
          IsAllowedTag(t) == t \in AllowedTags
      IN  [ok |-> TRUE,
           keys |-> obj.keys,
           components |-> obj.components,
           component_tags |-> SelectSeq(obj.component_tags, IsAllowedTag),
           format |-> NormalizeFormat(obj.format),
           movements |-> after,
           unmapped_movements |-> norm.unmapped_movements,
           notes |->
              IF removed # {}
              THEN (IF norm.coerced THEN norm.notes ELSE NotesOf(obj.notes))
                     \o << NoteRemoved(SortedSeqOf(removed)) >>
              ELSE norm.notes]

-----------------------------------------------------------------------------
(* The responses _validate_llm_result is applied to.                       *)

MaxMovements == 2
MaxUnmapped == 1

MovementEntries == {"Row", " erg ", "row (erg)", "burpee", "zumba", "", NonStr}
UnmappedEntries == {"Row", "zumba", ""}

AllLabels == {"row (erg)", "burpee"}
LabelSets == { AllLabels, {"burpee"} }

SeqsUpTo(S, n) == UNION { [1..k -> S] : k \in 0..n }

Comp(h, found) == [wellformed |-> TRUE, component |-> h, found |-> found]

ComponentLists ==
    { << >>,
      << Comp("Floater Strength", {"row (erg)"}) >>,
      << Comp("Conditioning", {"row (erg)"}) >>,
      << Comp("Floater Strength", {"row (erg)", "burpee"}),
         Comp("Conditioning", {"burpee"}) >>,
      << Comp("FLOATER STRENGTH", {"burpee"}), Comp("Conditioning", {}) >> }

\* The keys the prompt asks the oracle for.
ResponseKeys ==
    {"id", "date", "title", "link", "is_rest_day", "components",
     "component_tags", "format", "movements", "unmapped_movements", "notes"}

BaseObj ==
    [keys |-> ResponseKeys, components_is_list |-> TRUE, components |-> << >>,
     component_tags |-> << "conditioning" >>, format |-> "AMRAP",
     movements |-> << "burpee" >>, unmapped_movements |-> << >>,
     notes |-> ""]

\* Responses that differ in their movements, components and notes.
MovementObjs ==
    { [BaseObj EXCEPT !.movements = m, !.unmapped_movements = u,
                      !.components = c, !.notes = n] :
        m \in SeqsUpTo(MovementEntries, MaxMovements),
        u \in SeqsUpTo(UnmappedEntries, MaxUnmapped),
        c \in ComponentLists,
        n \in {"", " ok "} }

\* Responses that differ in their format and component tags.
FormatObjs ==
    { [BaseObj EXCEPT !.format = f, !.component_tags = t] :
        f \in {"AMRAP", " For Time ", "Tabata", "Chipper", "N/A", "", "emom"},
        t \in { << >>, << "strength" >>, << "strength", "cardio" >>,
                << "floater_strength", "partner" >> } }

\* Responses the schema check rejects.
MalformedObjs ==
    { [BaseObj EXCEPT !.keys = ResponseKeys \ {k}] : k \in ResponseKeys }
    \cup { [BaseObj EXCEPT !.components_is_list = FALSE],
           [BaseObj EXCEPT !.components =
               << [wellformed |-> FALSE, component |-> "", found |-> {}] >>] }

InitValidate ==
    /\ v_obj \in MovementObjs \cup FormatObjs \cup MalformedObjs
    /\ v_labels \in LabelSets
    /\ v_out = << >>
    /\ vpc = "call"
    /\ IdleCanon
    /\ IdleTag
    /\ IdleRun
    /\ IdleCall

ValidateCall ==
    /\ vpc = "call"
    /\ v_out' = ValidateLLMResult(v_obj, v_labels)
    /\ vpc' = "done"
    /\ UNCHANGED <<v_obj, v_labels, nonValVars>>

NextValidate == ValidateCall

SpecValidate == InitValidate /\ [][NextValidate]_vars

-----------------------------------------------------------------------------
(* Properties of _validate_llm_result                                      *)

Validated == vpc = "done" /\ v_out.ok

InMovements(m) == \E i \in 1..Len(v_out.movements) : v_out.movements[i] = m

InUnmapped(m) ==
    \E i \in 1..Len(v_out.unmapped_movements) : v_out.unmapped_movements[i] = m

NamedInNote(kind, m) ==
    \E i \in 1..Len(v_out.notes) :
        /\ v_out.notes[i].kind = kind
        /\ \E j \in 1..Len(v_out.notes[i].names) : v_out.notes[i].names[j] = m

\* The entry as the alias table maps it (itself when it is no alias).
ClaimAlias(m) ==
    CASE m \in {"Row", " erg "} -> "row (erg)"
      [] OTHER -> m

\* An entry of the response is accounted for: it (or its canonical label)
\* is in one of the two lists, or a note names it.
AccountedFor(m) ==
    \/ InMovements(ClaimAlias(m))
    \/ InUnmapped(ClaimAlias(m)) \/ InUnmapped(m)
    \/ NamedInNote("coerced", ClaimAlias(m))
    \/ NamedInNote("removed", ClaimAlias(m))

CoercedWithNote(m) ==
    ClaimAlias(m) \notin v_labels =>
        /\ InUnmapped(ClaimAlias(m))
        /\ NamedInNote("coerced", ClaimAlias(m))

\* C8 as stated: every entry of the response's movements that is not
\* canonical after alias mapping is in unmapped_movements and named in the
\* coercion note, and no entry of either list disappears without a note.
C8_Original ==
    Validated =>
        /\ \A i \in 1..Len(v_out.movements) : v_out.movements[i] \in v_labels
        /\ \A i \in 1..Len(v_obj.movements) : CoercedWithNote(v_obj.movements[i])
        /\ \A i \in 1..Len(v_obj.movements) : AccountedFor(v_obj.movements[i])
        /\ \A i \in 1..Len(v_obj.unmapped_movements) :
              AccountedFor(v_obj.unmapped_movements[i])

IsLabelText(m) == m # NonStr /\ m # ""

\* C8 (amended): every entry of movements is canonical; every non-empty
\* string movement of the response that is not canonical after alias mapping
\* is in unmapped_movements and named in the coercion note; no non-empty
\* string entry of either list disappears without a note.
C8_UnknownCoercedWithNote ==
    Validated =>
        /\ \A i \in 1..Len(v_out.movements) : v_out.movements[i] \in v_labels
        /\ \A i \in 1..Len(v_obj.movements) :
              IsLabelText(v_obj.movements[i]) =>
                  /\ CoercedWithNote(v_obj.movements[i])
                  /\ AccountedFor(v_obj.movements[i])
        /\ \A i \in 1..Len(v_obj.unmapped_movements) :
              IsLabelText(v_obj.unmapped_movements[i]) =>
                  AccountedFor(v_obj.unmapped_movements[i])

\* C8 witness: an unknown label and an alias whose label is not canonical
\* were both coerced, with the note.
C8_Witness ==
    /\ Validated
    /\ v_obj.movements = << "zumba", "Row" >>
    /\ v_labels = {"burpee"}
    /\ v_out.movements = << >>
    /\ InUnmapped("zumba") /\ InUnmapped("row (erg)")
    /\ NamedInNote("coerced", "zumba")

IsKnownAlias(m) == m \in {"Row", " erg "}

NoDuplicates(s) == \A i, j \in 1..Len(s) : s[i] = s[j] => i = j

\* The labels the response's components tag in floater-strength components
\* and in no other component.
ClaimFloaterOnly ==
    LET comps == v_obj.components
        F == { i \in 1..Len(comps) :
                 comps[i].component \in {"Floater Strength", "FLOATER STRENGTH"} }
    IN  UNION { comps[i].found : i \in F }
          \ UNION { comps[i].found : i \in (1..Len(comps)) \ F }

\* C9 as stated: every alias among the movements is replaced by its
\* canonical label, ["Row"] becomes ["row (erg)"] whenever "row (erg)" is
\* canonical, and the result holds no label twice.
C9_Original ==
    Validated =>
        /\ \A i \in 1..Len(v_obj.movements) :
              LET m == v_obj.movements[i]
              IN  (IsKnownAlias(m) /\ "row (erg)" \in v_labels) =>
                      (InMovements("row (erg)") /\ ~InMovements(m))
        /\ (v_obj.movements = << "Row" >> /\ "row (erg)" \in v_labels
              /\ v_obj.unmapped_movements = << >>) =>
                  v_out.movements = << "row (erg)" >>
        /\ NoDuplicates(v_out.movements)

\* C9 (amended): the same, for every alias whose canonical label is not
\* tagged only in a floater-strength component of the response; a label
\* that is floater-only is removed from movements and named in the
\* "Removed floater-only movements" note.
C9_AliasNormalized ==
    Validated =>
        /\ \A i \in 1..Len(v_obj.movements) :
              LET m == v_obj.movements[i]
              IN  (IsKnownAlias(m) /\ "row (erg)" \in v_labels) =>
                    /\ ~InMovements(m)
                    /\ IF "row (erg)" \in ClaimFloaterOnly
                         THEN /\ ~InMovements("row (erg)")
                              /\ NamedInNote("removed", "row (erg)")
                         ELSE InMovements("row (erg)")
        /\ (v_obj.movements = << "Row" >> /\ "row (erg)" \in v_labels
              /\ v_obj.unmapped_movements = << >>
              /\ "row (erg)" \notin ClaimFloaterOnly) =>
                  v_out.movements = << "row (erg)" >>
        /\ NoDuplicates(v_out.movements)

\* C9 witness: ["Row", " erg "] came out as the single label "row (erg)".
C9_Witness ==
    /\ Validated
    /\ v_obj.movements = << "Row", " erg " >>
    /\ "row (erg)" \in v_labels
    /\ v_out.movements = << "row (erg)" >>

-----------------------------------------------------------------------------
(* tag_post_with_llm                                                       *)

MaxCfgRetries == 6

\* What one oracle call can produce: an HTTP error status
\* (_chat_completions raises OpenAIAPIError), a network failure, a body
\* that is not JSON, or a JSON object.
TagResponses ==
    MalformedObjs
    \cup { BaseObj,
           [BaseObj EXCEPT !.movements = << "Row", "zumba" >>] }

NoObj == [keys |-> {}]

CallOutcomes ==
    { [kind |-> "http", status |-> st, obj |-> NoObj] : st \in {429, 500} }
    \cup { [kind |-> k, status |-> 0, obj |-> NoObj] :
              k \in {"network", "bad_json"} }
    \cup { [kind |-> "response", status |-> 200, obj |-> o] :
              o \in TagResponses }

\* The exception line 472 catches, "" when the call returned a valid result.
ErrorOf(outcome) ==
    CASE outcome.kind = "http" -> "OpenAIAPIError"
      [] outcome.kind = "network" -> "RequestException"
      [] outcome.kind = "bad_json" -> "JSONDecodeError"
      [] OTHER ->
           LET r == ValidateLLMResult(outcome.obj, AllLabels)
           IN  IF r.ok THEN "" ELSE "ValueError: " \o r.error

\* for attempt in range(1, cfg.max_retries + 1), line 457.
AttemptsRemainOffByOne(a, max_retries) == a <= max_retries + 1

AttemptsRemain(a, max_retries) == a <= max_retries

InitTag ==
    /\ t_max_retries \in 0..MaxCfgRetries
    /\ attempt = 1
    /\ calls = 0
    /\ failures = 0
    /\ last_err = "none"
    /\ t_last = [kind |-> "none", status |-> 0, obj |-> NoObj]
    /\ t_result = << >>
    /\ tpc = "loop"
    /\ IdleCanon
    /\ IdleVal
    /\ IdleRun
    /\ IdleCall

\* Lines 457-473: one oracle call, json.loads and _validate_llm_result.
TagAttempt ==
    /\ tpc = "loop"
    /\ AttemptsRemain(attempt, t_max_retries)
    /\ \E outcome \in CallOutcomes :
         /\ t_last' = outcome
         /\ calls' = calls + 1
         /\ IF ErrorOf(outcome) = ""
              THEN /\ t_result' = ValidateLLMResult(outcome.obj, AllLabels)
                   /\ tpc' = "returned"
                   /\ UNCHANGED <<last_err, failures>>
              ELSE /\ last_err' = ErrorOf(outcome)
                   /\ failures' = failures + 1
                   /\ tpc' = "sleep"
                   /\ UNCHANGED t_result
    /\ UNCHANGED <<t_max_retries, attempt, nonTagVars>>

\* Lines 474-475: the backoff sleep, then the next iteration.
TagSleep ==
    /\ tpc = "sleep"
    /\ attempt' = attempt + 1
    /\ tpc' = "loop"
    /\ UNCHANGED <<t_max_retries, calls, failures, last_err, t_last, t_result,
                   nonTagVars>>

\* Line 477: the loop is exhausted.
TagRaise ==
    /\ tpc = "loop"
    /\ ~AttemptsRemain(attempt, t_max_retries)
    /\ tpc' = "raised"
    /\ UNCHANGED <<t_max_retries, attempt, calls, failures, last_err, t_last,
                   t_result, nonTagVars>>

NextTag ==
    \/ TagAttempt
    \/ TagSleep
    \/ TagRaise

\* The call runs in one thread; every oracle call has a timeout and every
\* sleep is finite, so an enabled step is eventually taken.
SpecTag == InitTag /\ [][NextTag]_vars /\ WF_vars(NextTag)

-----------------------------------------------------------------------------
(* Properties of tag_post_with_llm                                         *)

TagBounded ==
    /\ calls <= t_max_retries
    /\ tpc = "returned" =>
          /\ failures = calls - 1
          /\ t_last.kind = "response"
          /\ t_result.ok
          /\ t_result = ValidateLLMResult(t_last.obj, AllLabels)
    /\ tpc = "raised" =>
          /\ calls = t_max_retries
          /\ failures = calls

\* C6: tag_post_with_llm makes at most cfg.max_retries oracle calls and
\* ends: it returns the validated result of the first call that succeeds
\* (every earlier call failed), or raises after max_retries failed calls.
C6_TagTerminates == []TagBounded /\ <>(tpc \in {"returned", "raised"})

\* C6 witness: all of six calls failed and the function raised.
C6_Witness ==
    /\ tpc = "raised"
    /\ t_max_retries = 6
    /\ calls = 6
    /\ last_err # "none"

ClaimRequired ==
    {"id", "date", "title", "link", "is_rest_day", "components",
     "component_tags", "format", "movements", "unmapped_movements", "notes"}

LacksRequiredKey(outcome) ==
    outcome.kind = "response" /\ ~(ClaimRequired \subseteq outcome.obj.keys)

\* A response that lacks a key is rejected, not returned.
MissingKeyRejected ==
    /\ LacksRequiredKey(t_last) =>
          (tpc # "returned" /\ last_err = "ValueError: Missing key")
    /\ tpc = "returned" => ClaimRequired \subseteq t_result.keys

\* After the rejection the next step is the backoff, and, while attempts
\* remain, the step after it is another oracle call.
MissingKeyRetried ==
    /\ (tpc = "sleep" /\ LacksRequiredKey(t_last)) =>
          (tpc' = "loop" /\ attempt' = attempt + 1 /\ calls' = calls)
    /\ (tpc = "loop" /\ LacksRequiredKey(t_last) /\ attempt <= t_max_retries) =>
          calls' = calls + 1

\* C7: a response lacking a required key is never returned:
\* _validate_llm_result raises, and tag_post_with_llm makes another attempt
\* while attempts remain.
C7_MissingKeyRetried == []MissingKeyRejected /\ [][MissingKeyRetried]_vars

\* C7 witness: a response without "notes" was rejected and the next call
\* returned a complete one.
C7_Witness ==
    /\ tpc = "returned"
    /\ calls = 2
    /\ last_err = "ValueError: Missing key"
    /\ t_result.keys = ClaimRequired

-----------------------------------------------------------------------------
(* scripts/llm_tag_workouts.py: main and its worker pool                   *)

MaxCandidates == 3

PostIdsOfRun == {1, 2, 3}

\* The candidate lists of the model: the ids of the input file's lines, in
\* file order. The input is not de-duplicated (lines 255-279), so a list
\* may hold an id twice.
CandidateLists ==
    { l \in { << >>, << 1 >>, << 1, 2 >>, << 1, 1 >>, << 1, 2, 3 >>,
              << 2, 1, 2 >>, << 1, 2, 3, 1 >> } :
        Len(l) <= MaxCandidates }

\* The command lines of the model (--workers, --resume, --overwrite, --judge).
WorkerCounts == {0, 1, 2}

ArgSets ==
    [resume : BOOLEAN, overwrite : BOOLEAN, judge : BOOLEAN,
     workers : WorkerCounts]

\* f.write("\n"), line 119: the newline that ends a record's line.
NL == 0

\* The files found at start-up: the lines of the two logs and the ids that
\* have a cache file.
StartFiles ==
    [out : { << >>, << 1, NL >> }, cache : { {}, {1} },
     judged : { [out |-> << >>, cache |-> {}],
                [out |-> << >>, cache |-> {1}],
                [out |-> << 1, NL >>, cache |-> {1}] }]

\* The ids of the regex baseline (--regex-index), loaded under --judge.
RegexIds == {1, 2}

\* `for line in f`: the lines of a log, each as the records written on it
\* (the text after the last newline is a line too).
RECURSIVE LinesFrom(_, _, _)
LinesFrom(log, i, cur) ==
    IF i > Len(log)
      THEN IF cur = << >> THEN << >> ELSE << cur >>
      ELSE IF log[i] = NL
             THEN << cur >> \o LinesFrom(log, i + 1, << >>)
             ELSE LinesFrom(log, i + 1, Append(cur, log[i]))

Lines(log) == LinesFrom(log, 1, << >>)

\* json.loads(line) succeeds on a line that holds exactly one record; blank
\* lines are skipped and lines that do not parse are passed over.
RECURSIVE RecordsFrom(_, _)
RecordsFrom(lines, i) ==
    IF i > Len(lines)
      THEN << >>
      ELSE (IF Len(lines[i]) = 1 THEN << lines[i][1] >> ELSE << >>)
             \o RecordsFrom(lines, i + 1)

Records(log) == RecordsFrom(Lines(log), 1)

\* _read_seen_ids returning no id at all.
IdsOfNone(log) == {}

\* _read_seen_ids, lines 95-111.
IdsOf(log) == { Records(log)[i] : i \in 1..Len(Records(log)) }

\* threading.Lock: acquire blocks while another thread holds the lock.
LockFreeAlways(lock) == TRUE

LockFree(lock) == lock = 0

\* workers = max(1, int(args.workers)), line 362.
Workers == IF r_args.workers < 1 THEN 1 ELSE r_args.workers

Futures == 1..Len(candidates)

\* Lines 365 and 377/388: worker(*c), each call with its own candidate's id.
PidOfFirst(f) == candidates[1]

Pid(f) == candidates[f]

\* Lines 365 and 383: the worker's exception reaches main (in the pool,
\* through fut.result()).
WorkerRaisedSwallowed(f) == FALSE

WorkerRaised(f) == fut[f] = "failed"

Completed(f) == fut[f] \in {"ok", "failed"}

Submitted == { f \in Futures : fut[f] # "unsubmitted" }

\* Lines 230-248 and 281-283: the state main starts the pool with.
InitRun ==
    /\ r_args \in ArgSets
    /\ candidates \in CandidateLists
    /\ \E files \in StartFiles :
         /\ out_log = IF r_args.overwrite THEN << >> ELSE files.out
         /\ seen_ids =
              IF r_args.resume /\ ~r_args.overwrite THEN IdsOf(files.out) ELSE {}
         /\ cache = files.cache
         /\ IF r_args.judge
              THEN /\ regex_ids = RegexIds
                   /\ judge_log =
                        IF r_args.overwrite THEN << >> ELSE files.judged.out
                   /\ seen_judge_ids =
                        IF r_args.resume /\ ~r_args.overwrite
                          THEN IdsOf(files.judged.out) ELSE {}
                   /\ judge_cache = files.judged.cache
              ELSE /\ regex_ids = {}
                   /\ judge_log = << >>
                   /\ seen_judge_ids = {}
                   /\ judge_cache = {}
    /\ cache_writes = [p \in PostIdsOfRun |-> 0]
    /\ llm_calls = {}
    /\ out_lock = 0
    /\ judge_lock = 0
    /\ counts = [llm_written |-> 0, judge_written |-> 0]
    /\ it = 1
    /\ fut = [f \in 1..Len(candidates) |-> "unsubmitted"]
    /\ running = {}
    /\ done_set = {}
    /\ out_json = [written |-> FALSE, items |-> << >>]
    /\ mpc = IF r_args.workers <= 1 THEN "serial" ELSE "submit"
    /\ IdleCanon
    /\ IdleVal
    /\ IdleTag
    /\ IdleCall

workerFrame == <<inputVars, it, running, done_set, mpc, nonRunVars>>

Goto(f, pc) == fut' = [fut EXCEPT ![f] = pc]

\* Lines 291-296: the cached first-pass result, if --resume finds one
\* (cache holds the ids whose cache file exists and parses).
W_ReadCache(f) ==
    /\ fut[f] = "start"
    /\ Goto(f, IF r_args.resume /\ Pid(f) \in cache
                 THEN "check_append" ELSE "check_seen")
    /\ UNCHANGED <<fileVars, sharedVars, workerFrame>>

\* Lines 298-300: nothing cached; return if the id is already in the log.
SkipsCallNever(pid) == FALSE

SkipsCall(pid) == r_args.resume /\ pid \in seen_ids /\ ~r_args.judge

W_CheckSeen(f) ==
    /\ fut[f] = "check_seen"
    /\ Goto(f, IF SkipsCall(Pid(f)) THEN "ok" ELSE "call")
    /\ UNCHANGED <<fileVars, sharedVars, workerFrame>>

\* Lines 301-311: tag_post_with_llm returns a result or raises RuntimeError.
W_Tag(f) ==
    /\ fut[f] = "call"
    /\ llm_calls' = llm_calls \cup {f}
    /\ \E ok \in BOOLEAN : Goto(f, IF ok THEN "write_cache" ELSE "failed")
    /\ UNCHANGED <<fileVars, seen_ids, seen_judge_ids, out_lock, judge_lock,
                   counts, workerFrame>>

\* Line 312: cache_path.write_text.
W_WriteCache(f) ==
    /\ fut[f] = "write_cache"
    /\ cache' = cache \cup {Pid(f)}
    /\ cache_writes' = [cache_writes EXCEPT ![Pid(f)] = @ + 1]
    /\ Goto(f, "check_append")
    /\ UNCHANGED <<judge_cache, out_log, judge_log, out_json, sharedVars,
                   workerFrame>>

\* Line 315: the membership test on seen_ids.
W_CheckAppend(f) ==
    /\ fut[f] = "check_append"
    /\ Goto(f, IF ~(r_args.resume /\ Pid(f) \in seen_ids)
                 THEN "append" ELSE "judge_gate")
    /\ UNCHANGED <<fileVars, sharedVars, workerFrame>>

\* Line 316, _append_jsonl (114-119): take the lock ...
W_AppendAcquire(f) ==
    /\ fut[f] = "append"
    /\ LockFree(out_lock)
    /\ out_lock' = f
    /\ Goto(f, "appending")
    /\ UNCHANGED <<fileVars, seen_ids, seen_judge_ids, judge_lock, counts,
                   llm_calls, workerFrame>>

\* ... json.dump(obj, f), line 118 ...
W_AppendWrite(f) ==
    /\ fut[f] = "appending"
    /\ out_log' = Append(out_log, Pid(f))
    /\ Goto(f, "append_newline")
    /\ UNCHANGED <<cache, judge_cache, cache_writes, judge_log, out_json,
                   sharedVars, workerFrame>>

\* ... f.write("\n"), line 119, and the lock is released.
W_AppendNewline(f) ==
    /\ fut[f] = "append_newline"
    /\ out_log' = Append(out_log, NL)
    /\ out_lock' = 0
    /\ Goto(f, "count")
    /\ UNCHANGED <<cache, judge_cache, cache_writes, judge_log, out_json,
                   seen_ids, seen_judge_ids, judge_lock, counts, llm_calls,
                   workerFrame>>

\* Lines 317-319: with out_lock: count the record, add the id to seen_ids.
W_CountAcquire(f) ==
    /\ fut[f] = "count"
    /\ LockFree(out_lock)
    /\ out_lock' = f
    /\ Goto(f, "counting")
    /\ UNCHANGED <<fileVars, seen_ids, seen_judge_ids, judge_lock, counts,
                   llm_calls, workerFrame>>

W_Count(f) ==
    /\ fut[f] = "counting"
    /\ counts' = [counts EXCEPT !.llm_written = @ + 1]
    /\ seen_ids' = seen_ids \cup {Pid(f)}
    /\ out_lock' = 0
    /\ Goto(f, "judge_gate")
    /\ UNCHANGED <<fileVars, seen_judge_ids, judge_lock, llm_calls, workerFrame>>

\* Lines 321-332: is the post judged at all. do_judge is --judge-all or a
\* difference between the regex tags and the oracle's tags.
W_JudgeGate(f) ==
    /\ fut[f] = "judge_gate"
    /\ IF ~r_args.judge \/ Pid(f) \notin regex_ids
         THEN Goto(f, "ok")
         ELSE \E do_judge \in BOOLEAN :
                 Goto(f, IF do_judge THEN "judge_read" ELSE "ok")
    /\ UNCHANGED <<fileVars, sharedVars, workerFrame>>

\* Lines 334-339.
W_JudgeReadCache(f) ==
    /\ fut[f] = "judge_read"
    /\ Goto(f, IF r_args.resume /\ Pid(f) \in judge_cache
                 THEN "judge_check_append" ELSE "judge_check_seen")
    /\ UNCHANGED <<fileVars, sharedVars, workerFrame>>

\* Lines 341-343.
W_JudgeCheckSeen(f) ==
    /\ fut[f] = "judge_check_seen"
    /\ Goto(f, IF r_args.resume /\ Pid(f) \in seen_judge_ids
                 THEN "ok" ELSE "judge_call")
    /\ UNCHANGED <<fileVars, sharedVars, workerFrame>>

\* Lines 344-353: judge_post_tags_with_llm returns or raises.
W_JudgeCall(f) ==
    /\ fut[f] = "judge_call"
    /\ \E ok \in BOOLEAN : Goto(f, IF ok THEN "judge_write_cache" ELSE "failed")
    /\ UNCHANGED <<fileVars, sharedVars, workerFrame>>

\* Line 354.
W_JudgeWriteCache(f) ==
    /\ fut[f] = "judge_write_cache"
    /\ judge_cache' = judge_cache \cup {Pid(f)}
    /\ Goto(f, "judge_check_append")
    /\ UNCHANGED <<cache, cache_writes, out_log, judge_log, out_json,
                   sharedVars, workerFrame>>

\* Line 356.
W_JudgeCheckAppend(f) ==
    /\ fut[f] = "judge_check_append"
    /\ Goto(f, IF ~(r_args.resume /\ Pid(f) \in seen_judge_ids)
                 THEN "judge_append" ELSE "ok")
    /\ UNCHANGED <<fileVars, sharedVars, workerFrame>>

\* Line 357, _append_jsonl under judge_lock.
W_JudgeAppendAcquire(f) ==
    /\ fut[f] = "judge_append"
    /\ LockFree(judge_lock)
    /\ judge_lock' = f
    /\ Goto(f, "judge_appending")
    /\ UNCHANGED <<fileVars, seen_ids, seen_judge_ids, out_lock, counts,
                   llm_calls, workerFrame>>

W_JudgeAppendWrite(f) ==
    /\ fut[f] = "judge_appending"
    /\ judge_log' = Append(judge_log, Pid(f))
    /\ Goto(f, "judge_append_newline")
    /\ UNCHANGED <<cache, judge_cache, cache_writes, out_log, out_json,
                   sharedVars, workerFrame>>

W_JudgeAppendNewline(f) ==
    /\ fut[f] = "judge_append_newline"
    /\ judge_log' = Append(judge_log, NL)
    /\ judge_lock' = 0
    /\ Goto(f, "judge_count")
    /\ UNCHANGED <<cache, judge_cache, cache_writes, out_log, out_json,
                   seen_ids, seen_judge_ids, out_lock, counts, llm_calls,
                   workerFrame>>

\* Lines 358-360.
W_JudgeCountAcquire(f) ==
    /\ fut[f] = "judge_count"
    /\ LockFree(judge_lock)
    /\ judge_lock' = f
    /\ Goto(f, "judge_counting")
    /\ UNCHANGED <<fileVars, seen_ids, seen_judge_ids, out_lock, counts,
                   llm_calls, workerFrame>>

W_JudgeCount(f) ==
    /\ fut[f] = "judge_counting"
    /\ counts' = [counts EXCEPT !.judge_written = @ + 1]
    /\ seen_judge_ids' = seen_judge_ids \cup {Pid(f)}
    /\ judge_lock' = 0
    /\ Goto(f, "ok")
    /\ UNCHANGED <<fileVars, seen_ids, out_lock, llm_calls, workerFrame>>

mainFrame == <<inputVars, fileVars, sharedVars, nonRunVars>>

\* Lines 363-365, workers == 1: the next worker call, made by main itself.
M_SerialCall ==
    /\ mpc = "serial"
    /\ running = {}
    /\ it <= Len(candidates)
    /\ fut' = [fut EXCEPT ![it] = "start"]
    /\ running' = {it}
    /\ it' = it + 1
    /\ UNCHANGED <<done_set, mpc, mainFrame>>

\* The call returned, or its exception leaves main.
M_SerialReturn ==
    /\ mpc = "serial"
    /\ \E f \in running :
         /\ Completed(f)
         /\ running' = {}
         /\ mpc' = IF WorkerRaised(f) THEN "aborted" ELSE "serial"
    /\ UNCHANGED <<it, fut, done_set, mainFrame>>

M_SerialEnd ==
    /\ mpc = "serial"
    /\ running = {}
    /\ it > Len(candidates)
    /\ mpc' = "regen"
    /\ UNCHANGED <<it, fut, running, done_set, mainFrame>>

Min(a, b) == IF a <= b THEN a ELSE b

\* Line 372: range(min(workers, len(candidates))).
InitialSubmissionsAll == Len(candidates)

InitialSubmissions == Min(Workers, Len(candidates))

\* Lines 372-377: the first min(workers, len(candidates)) submissions.
M_Submit ==
    /\ mpc = "submit"
    /\ IF Cardinality(running) < InitialSubmissions
         THEN /\ fut' = [fut EXCEPT ![it] = "start"]
              /\ running' = running \cup {it}
              /\ it' = it + 1
              /\ mpc' = mpc
         ELSE /\ mpc' = "wait"
              /\ UNCHANGED <<fut, running, it>>
    /\ UNCHANGED <<done_set, mainFrame>>

\* Line 380: wait(running, return_when=FIRST_COMPLETED).
M_Wait ==
    /\ mpc = "wait"
    /\ \E f \in running : Completed(f)
    /\ done_set' = { f \in running : Completed(f) }
    /\ running' = { f \in running : ~Completed(f) }
    /\ mpc' = "handle"
    /\ UNCHANGED <<it, fut, mainFrame>>

\* Line 379: `while running` ends; the pool shuts down with nothing to wait for.
M_PoolExit ==
    /\ mpc = "wait"
    /\ running = {}
    /\ mpc' = "regen"
    /\ UNCHANGED <<it, fut, running, done_set, mainFrame>>

\* Lines 381-388, a future that returned: submit the next candidate, if any.
M_HandleOk ==
    /\ mpc = "handle"
    /\ \E f \in done_set :
         /\ ~WorkerRaised(f)
         /\ done_set' = done_set \ {f}
         /\ IF it <= Len(candidates)
              THEN /\ fut' = [fut EXCEPT ![it] = "start"]
                   /\ running' = running \cup {it}
                   /\ it' = it + 1
              ELSE UNCHANGED <<fut, running, it>>
         /\ mpc' = IF done_set' = {} THEN "wait" ELSE "handle"
    /\ UNCHANGED mainFrame

\* Line 383, a future that raised: fut.result() re-raises in main, which
\* leaves the loop and the `with` block.
M_HandleFailed ==
    /\ mpc = "handle"
    /\ \E f \in done_set :
         /\ WorkerRaised(f)
         /\ done_set' = done_set \ {f}
    /\ mpc' = "shutdown"
    /\ UNCHANGED <<it, fut, running, mainFrame>>

\* ThreadPoolExecutor.__exit__: shutdown(wait=True) returns once every
\* submitted call has finished; the exception then ends main.
ShutdownMayReturnAtOnce == TRUE

ShutdownMayReturn == \A f \in Submitted : Completed(f)

M_Shutdown ==
    /\ mpc = "shutdown"
    /\ ShutdownMayReturn
    /\ mpc' = "aborted"
    /\ UNCHANGED <<it, fut, running, done_set, mainFrame>>

\* Lines 391-403: the items of the array, one per line of the log that
\* parses, in the order of the lines.
RegeneratedSorted(log) == SortSeq(Records(log), LAMBDA a, b : a < b)

Regenerated(log) == Records(log)

\* Lines 390-405: the JSON array, rebuilt from the lines of the log.
M_Regen ==
    /\ mpc = "regen"
    /\ out_json' = [written |-> TRUE, items |-> Regenerated(out_log)]
    /\ mpc' = "finished"
    /\ UNCHANGED <<inputVars, cache, judge_cache, cache_writes, out_log,
                   judge_log, sharedVars, it, fut, running, done_set,
                   nonRunVars>>

WorkerStep(f) ==
    \/ W_ReadCache(f)
    \/ W_CheckSeen(f)
    \/ W_Tag(f)
    \/ W_WriteCache(f)
    \/ W_CheckAppend(f)
    \/ W_AppendAcquire(f)
    \/ W_AppendWrite(f)
    \/ W_AppendNewline(f)
    \/ W_CountAcquire(f)
    \/ W_Count(f)
    \/ W_JudgeGate(f)
    \/ W_JudgeReadCache(f)
    \/ W_JudgeCheckSeen(f)
    \/ W_JudgeCall(f)
    \/ W_JudgeWriteCache(f)
    \/ W_JudgeCheckAppend(f)
    \/ W_JudgeAppendAcquire(f)
    \/ W_JudgeAppendWrite(f)
    \/ W_JudgeAppendNewline(f)
    \/ W_JudgeCountAcquire(f)
    \/ W_JudgeCount(f)

NextRun ==
    \/ \E f \in Futures : WorkerStep(f)
    \/ M_SerialCall
    \/ M_SerialReturn
    \/ M_SerialEnd
    \/ M_Submit
    \/ M_Wait
    \/ M_PoolExit
    \/ M_HandleOk
    \/ M_HandleFailed
    \/ M_Shutdown
    \/ M_Regen

SpecRun == InitRun /\ [][NextRun]_vars

\* The threads of the pool and main are scheduled as long as they can run.
SpecRunLive == SpecRun /\ WF_vars(NextRun)

-----------------------------------------------------------------------------
(* Claims about the runner                                                 *)

RunEnded == mpc \in {"aborted", "finished"}

FailureSeen == mpc \in {"shutdown", "aborted"}

FailFastState ==
    /\ mpc = "finished" => \A f \in Futures : fut[f] = "ok"
    /\ FailureSeen =>
         /\ \E f \in Futures : fut[f] = "failed"
         /\ ~out_json.written

\* Once main has seen a failure it submits nothing more and never resumes.
FailFastStep ==
    FailureSeen =>
      /\ mpc' \in {"shutdown", "aborted"}
      /\ it' = it
      /\ \A f \in Futures : fut[f] = "unsubmitted" => fut'[f] = "unsubmitted"
      /\ out_json' = out_json

RanToCompletion(f) ==
    /\ fut[f] = "ok"
    /\ f \in llm_calls => Pid(f) \in cache /\ Pid(f) \in IdsOf(out_log)

\* C5: when a worker's failure ends the run, every worker that was
\* submitted has finished by itself (none is cut short), and a sibling
\* whose own calls succeeded has its cache file written and its record in
\* the log.
C5_SiblingsComplete ==
    mpc = "aborted" =>
      \A f \in Submitted :
         /\ Completed(f)
         /\ fut[f] # "failed" => RanToCompletion(f)

\* A sibling that was still in flight when main's wait returned with the
\* failure, and that has since called the oracle, cached and logged.
C5_Witness ==
    /\ mpc = "aborted"
    /\ \E f \in Futures : fut[f] = "failed"
    /\ \E g \in running :
         /\ g \in llm_calls
         /\ RanToCompletion(g)
         /\ counts.llm_written > 0

SameCacheFile(f, g) == f # g /\ Pid(f) = Pid(g)

WritingCache(f) == fut[f] = "write_cache"

CacheWrittenOnce ==
    /\ \A p \in PostIdsOfRun : cache_writes[p] <= 1
    /\ \A f, g \in Futures :
         SameCacheFile(f, g) => ~(WritingCache(f) /\ WritingCache(g))

\* C10, as stated: within one run the cache file of an id is written at most
\* once and no two workers write the same cache file, whatever the run.
C10_Original == CacheWrittenOnce

\* C10, corrected: the same, for a candidate list that holds each post id
\* once (the runner does not de-duplicate its input).
C10_CacheWrittenOnce == NoDuplicates(candidates) => CacheWrittenOnce

\* Two workers of distinct ids write their cache files at the same time, and
\* a third id's file has been written once.
C10_Witness ==
    /\ NoDuplicates(candidates)
    /\ \E f, g \in Futures :
         /\ f # g
         /\ WritingCache(f)
         /\ WritingCache(g)
    /\ \E p \in PostIdsOfRun : cache_writes[p] = 1

InAppend(f) == fut[f] \in {"appending", "append_newline"}

InJudgeAppend(f) == fut[f] \in {"judge_appending", "judge_append_newline"}

\* Every record of the log is followed at once by its newline (the last
\* one may still be waiting for it while `writing`), and no line is blank.
WholeLines(log, writing) ==
    /\ \A i \in 1..Len(log) :
         /\ log[i] # NL /\ i < Len(log) => log[i + 1] = NL
         /\ log[i] = NL => i > 1 /\ log[i - 1] # NL
    /\ log # << >> /\ log[Len(log)] # NL => writing

\* C11: no two workers are inside the append section of the same output
\* file at the same time, a worker inside it holds the file's lock, and
\* every record of either log is one whole line of its own.
C11_AppendsExclusive ==
    /\ \A f, g \in Futures : InAppend(f) /\ InAppend(g) => f = g
    /\ \A f, g \in Futures : InJudgeAppend(f) /\ InJudgeAppend(g) => f = g
    /\ \A f \in Futures : InAppend(f) => out_lock = f
    /\ \A f \in Futures : InJudgeAppend(f) => judge_lock = f
    /\ WholeLines(out_log, \E f \in Futures : fut[f] = "append_newline")
    /\ WholeLines(judge_log,
                  \E f \in Futures : fut[f] = "judge_append_newline")

\* One worker is half-way through its line of the first-pass log while
\* another is half-way through its line of the judge log: each holds its
\* own file's lock and neither waits for the other.
C11_Witness ==
    \E f, g \in Futures :
       /\ fut[f] = "append_newline"
       /\ fut[g] = "judge_append_newline"
       /\ out_lock = f
       /\ judge_lock = g

-----------------------------------------------------------------------------
(* cfa_etl/llm_tagging.py: _sleep_s_for_retry                              *)

MaxAttempt == 12

\* Delays are floats of seconds; the model counts in 1/256000 s, which holds
\* 1.5 ** n exactly up to n = 8 and every millisecond.
Second == 256 * 1000

\* Powers are taken by repeated multiplication and stop growing at 1024 s,
\* above every ceiling the function applies with min().
Saturated == 1024 * Second

RECURSIVE TimesPow2(_, _)
TimesPow2(x, k) ==
    IF k <= 0 THEN x ELSE TimesPow2(Min(Saturated, 2 * x), k - 1)

RECURSIVE TimesPow15(_, _)
TimesPow15(x, k) ==
    IF k <= 0 THEN x ELSE TimesPow15(Min(Saturated, (3 * x) \div 2), k - 1)

Max(a, b) == IF a >= b THEN a ELSE b

\* err.retry_after_s: None, or the server's hint in seconds (lines 279-286).
NoHint == -1000 * Second

RetryAfterHints ==
    { NoHint, -5 * Second, 0, Second \div 5, 2 * Second, 20 * Second,
      100 * Second }

\* The errors tag_post_with_llm hands over: an OpenAIAPIError with its
\* status code and hint, or any other exception.
RetryErrors ==
    { [kind |-> "OpenAIAPIError", status_code |-> st, retry_after_s |-> h] :
        st \in {429, 500}, h \in RetryAfterHints }
    \cup { [kind |-> k, status_code |-> 0, retry_after_s |-> NoHint] :
             k \in {"RequestException", "ValueError"} }

\* random.uniform(0.0, 1.0), line 243, and random.uniform(0.0, 0.25), 250.
Jitters == { 0, Second \div 4, Second \div 2, Second }

SmallJitters == { 0, Second \div 8, Second \div 4 }

IsRateLimit(err) == err.kind = "OpenAIAPIError" /\ err.status_code = 429

\* Line 246.
RateLimitBase(a) == Min(300 * Second, TimesPow2(5 * Second, a - 1))

\* Line 247 with a factor of 8.
RetryAfterTimes8(err) ==
    IF err.retry_after_s = NoHint THEN 0 ELSE 8 * err.retry_after_s

\* Line 247: (err.retry_after_s or 0.0) * 4.0.
RetryAfterTimes4(err) ==
    IF err.retry_after_s = NoHint THEN 0 ELSE 4 * err.retry_after_s

\* Line 250, without its jitter.
GenericBaseFlat(a) == 30 * Second

GenericBase(a) == Min(30 * Second, TimesPow15(Second, a))

\* Lines 243-250.
SleepSForRetry(a, err, jitter, small_jitter) ==
    IF IsRateLimit(err)
      THEN Max(RateLimitBase(a), RetryAfterTimes4(err)) + jitter
      ELSE GenericBase(a) + small_jitter

InitSleep ==
    /\ fn = "_sleep_s_for_retry"
    /\ fn_args \in [attempt : 1..MaxAttempt, err : RetryErrors]
    /\ fn_ret = << >>
    /\ IdleCanon
    /\ IdleVal
    /\ IdleTag
    /\ IdleRun

SleepCall ==
    /\ fn = "_sleep_s_for_retry"
    /\ fn_ret = << >>
    /\ \E jitter \in Jitters, small_jitter \in SmallJitters :
         fn_ret' = << SleepSForRetry(fn_args.attempt, fn_args.err, jitter,
                                     small_jitter) >>
    /\ UNCHANGED <<fn, fn_args, nonCallVars>>

NextSleep == SleepCall

SpecSleep == InitSleep /\ [][NextSleep]_vars

Slept == fn = "_sleep_s_for_retry" /\ fn_ret # << >>

Delay == fn_ret[1]

\* The delays a generic failure can get at the same attempt number.
GenericDelays(a) ==
    { SleepSForRetry(a, [kind |-> "ValueError", status_code |-> 0,
                         retry_after_s |-> NoHint], 0, j) :
        j \in SmallJitters }

\* C12: for every attempt number and every retry-after hint, the delay after
\* a rate-limit failure is at least 5 s and longer than every delay a
\* generic failure can get at the same attempt number; a generic delay is at
\* most 30 s plus 0.25 s of jitter.
C12_RateLimitBackoffLonger ==
    Slept =>
      IF IsRateLimit(fn_args.err)
        THEN /\ Delay >= 5 * Second
             /\ \A g \in GenericDelays(fn_args.attempt) : Delay > g
        ELSE Delay <= 30 * Second + Second \div 4

\* A rate-limit delay at an attempt where the generic delay has reached its
\* 30 s ceiling, with a short hint from the server.
C12_Witness ==
    /\ Slept
    /\ IsRateLimit(fn_args.err)
    /\ fn_args.err.retry_after_s = Second \div 5
    /\ GenericBase(fn_args.attempt) = 30 * Second
    /\ Delay >= 300 * Second

-----------------------------------------------------------------------------
(* Claims about the regenerated array                                      *)

Finished == mpc = "finished"

\* The records this run appended (counts.llm_written of them, at the end
\* of the log) and the records the log held before.
AppendedRecords ==
    LET recs == Records(out_log)
    IN  SubSeq(recs, Len(recs) - counts.llm_written + 1, Len(recs))

EarlierRecords ==
    LET recs == Records(out_log)
    IN  SubSeq(recs, 1, Len(recs) - counts.llm_written)

\* seen_ids as it was when the workers started.
SeenAtStart ==
    IF r_args.resume /\ ~r_args.overwrite
      THEN { EarlierRecords[i] : i \in 1..Len(EarlierRecords) }
      ELSE {}

\* The candidates a run has to log, in the order of the input.
ToLog == SelectSeq(candidates, LAMBDA pid : pid \notin SeenAtStart)

SameElements(s, t) ==
    /\ Len(s) = Len(t)
    /\ { s[i] : i \in 1..Len(s) } = { t[i] : i \in 1..Len(t) }

\* C13, as stated: the array is the same for every interleaving of the same
\* posts, hence the one a run with a single worker writes: the earlier
\* records, then the posts in the order of the input.
C13_Original ==
    Finished /\ NoDuplicates(candidates) =>
      out_json.items = EarlierRecords \o ToLog

\* C13, corrected: the array holds the records of the log in the order of
\* the log. For a candidate list without repeated ids the records a run
\* adds are the same under every interleaving, but their order in the array
\* is the order in which the workers appended them.
C13_ArrayFollowsLog ==
    Finished =>
      /\ out_json.written
      /\ out_json.items = Records(out_log)
      /\ NoDuplicates(candidates) =>
           /\ SameElements(AppendedRecords, ToLog)
           /\ NoDuplicates(AppendedRecords)

\* A finished run of two workers whose array lists two posts in the reverse
\* of their input order.
C13_Witness ==
    /\ Finished
    /\ NoDuplicates(candidates)
    /\ Len(ToLog) >= 2
    /\ SameElements(AppendedRecords, ToLog)
    /\ out_json.items # EarlierRecords \o ToLog

-----------------------------------------------------------------------------
(* Claims about the pool                                                   *)

InFlight == { f \in Futures : fut[f] \notin {"unsubmitted", "ok", "failed"} }

InFlightBounded ==
    mpc # "idle" =>
      Cardinality(InFlight) <= (IF r_args.workers > 1 THEN r_args.workers ELSE 1)

\* A worker call starts only for a candidate that was never submitted.
SubmittedOnce ==
    \A f \in Futures :
       /\ fut'[f] = "start" /\ fut[f] # "start" => fut[f] = "unsubmitted"
       /\ fut[f] # "unsubmitted" => fut'[f] # "unsubmitted"

NoWorkerFailed == \A f \in Futures : fut[f] # "failed"

AllProcessed ==
    RunEnded /\ NoWorkerFailed => Finished /\ \A f \in Futures : fut[f] = "ok"

\* C14: at most max(1, workers) posts are in flight at any time, each
\* candidate is submitted at most once, every run ends, and a run in which
\* no worker failed ends with every candidate submitted and processed.
C14_BoundedPoolProcessesAll ==
    /\ []InFlightBounded
    /\ [][SubmittedOnce]_vars
    /\ []AllProcessed
    /\ <>RunEnded

\* A finished run of two workers over more candidates than workers, every
\* one of them processed.
C14_Witness ==
    /\ Finished
    /\ r_args.workers = 2
    /\ Len(candidates) > 2
    /\ \A f \in Futures : fut[f] = "ok"

-----------------------------------------------------------------------------
(* cfa_etl/movements.py: texts                                             *)

\* A text is the sequence of its words, in the order and in the letter case
\* of the text; Newline stands for a line break, any other gap between two
\* words is one space. Joining texts with " " is concatenation.
Newline == "<nl>"

\* str.lower() on the words of the model.
LowerWord(w) ==
    CASE w = "Rest" -> "rest"
      [] w = "REST" -> "rest"
      [] w = "Day" -> "day"
      [] w = "DAY" -> "day"
      [] w = "AMRAP" -> "amrap"
      [] w = "Tomorrow" -> "tomorrow"
      [] w = "Tomorrow:" -> "tomorrow:"
      [] w = "Monday:" -> "monday:"
      [] w = "Next" -> "next"
      [] w = "Run" -> "run"
      [] w = "Schedule" -> "schedule"
      [] w = "Metcon" -> "metcon"
      [] w = "Notes" -> "notes"
      [] w = "News" -> "news"
      [] w = "Clean" -> "clean"
      [] w = "Deadlift" -> "deadlift"
      [] w = "Set" -> "set"
      [] w = "Murph" -> "murph"
      [] w = "Murphs" -> "murphs"
      [] w = "Murph!" -> "murph!"
      [] w = "WOD" -> "wod"
      [] w = "Fran" -> "fran"
      [] w = "Mile" -> "mile"
      [] OTHER -> w

Lower(text) == [i \in 1..Len(text) |-> LowerWord(text[i])]

\* The lower-case words that occur inside a lower-case word of the model
\* (`k in word`), the word itself included.
Inside(w) ==
    {w} \cup
    ( CASE w = "everyone" -> {"every"}
        [] w = "tomorrow" -> {"row"}
        [] w = "tomorrow:" -> {"tomorrow", "row"}
        [] w = "tomorrows" -> {"tomorrow", "row"}
        [] w = "monday:" -> {"monday"}
        [] w = "burpees" -> {"burpee"}
        [] w = "cleans" -> {"clean"}
        [] w = "deadlifts" -> {"deadlift"}
        [] w = "brunch" -> {"run"}
        [] w = "goals:" -> {"goals"}
        [] w = "murphs" -> {"murph"}
        [] w = "murph!" -> {"murph"}
        [] w = "pull-ups" -> {"pull", "pull-up"}
        [] w = "push-ups" -> {"push", "push-up"}
        [] w = "squats" -> {"squat"}
        [] w = "rounds" -> {"round"}
        [] OTHER -> {} )

\* `phrase in text`, for a phrase of one or more words separated by one
\* space: the words of the phrase occur inside consecutive words of the text.
Contains(text, phrase) ==
    \E i \in 1..(Len(text) - Len(phrase) + 1) :
       \A k \in 1..Len(phrase) : phrase[k] \in Inside(text[i + k - 1])

ContainsWord(text, w) == Contains(text, << w >>)

\* str.strip(): line breaks at either end go.
RECURSIVE StripText(_)
StripText(text) ==
    IF text = << >> THEN text
    ELSE IF Head(text) = Newline THEN StripText(Tail(text))
    ELSE IF text[Len(text)] = Newline
           THEN StripText(SubSeq(text, 1, Len(text) - 1))
    ELSE text

\* \b\d+\b: a number standing on its own.
IsNumber(w) == w \in {"1", "5", "10", "100", "400"}

HasNumber(text) == \E i \in 1..Len(text) : IsNumber(text[i])

\* \d: a digit anywhere.
HasDigit(text) ==
    \E i \in 1..Len(text) : IsNumber(text[i]) \/ text[i] \in {"5k", "400m"}

\* Lines 97-105: the word lists of _details_look_like_workout.
WorkoutKeywords ==
    { << "amrap" >>, << "for", "time" >>, << "emom" >>, << "every" >>,
      << "interval" >>, << "tabata" >> }

MovementWords ==
    { "row", "run", "bike", "burpee", "squat", "deadlift", "snatch", "clean",
      "press", "pull-up", "push-up", "thruster", "swing" }

\* \bcal(?:ories)?\b
HasCalories(text) == \E i \in 1..Len(text) : text[i] \in {"cal", "calories"}

\* _details_look_like_workout, lines 93-106.
DetailsLookLikeWorkout(details) ==
    LET d == Lower(details)
    IN  /\ details # << >>
        /\ \/ \E k \in WorkoutKeywords : Contains(d, k)
           \/ HasCalories(d) /\ (ContainsWord(d, "bike") \/ ContainsWord(d, "row"))
           \/ HasNumber(d) /\ \E m \in MovementWords : ContainsWord(d, m)

\* A component: its heading (c.get("component") or "") and its details.
ComponentText(c) == StripText(c.component \o c.details)

RECURSIVE JoinTexts(_)
JoinTexts(texts) ==
    IF texts = << >> THEN << >> ELSE Head(texts) \o JoinTexts(Tail(texts))

\* (components or [])[:2], line 217.
IntroComponentsAll(components) == components

IntroComponents(components) ==
    SubSeq(components, 1, Min(2, Len(components)))

\* Lines 215-218.
Intro(components) ==
    LET cs == IntroComponents(components)
    IN  Lower(JoinTexts([i \in 1..Len(cs) |-> ComponentText(cs[i])]))

RestDayPhrase == << "rest", "day" >>

\* is_rest_day, lines 206-227.
IsRestDay(components, title) ==
    IF Contains(Lower(title), RestDayPhrase) THEN TRUE
    ELSE IF ~Contains(Intro(components), RestDayPhrase) THEN FALSE
    ELSE IF DetailsLookLikeWorkout(Intro(components)) THEN FALSE
    ELSE TRUE

-----------------------------------------------------------------------------
(* is_rest_day on its own                                                  *)

MaxComponents == 3

Component(heading, details) == [component |-> heading, details |-> details]

\* The components of the model posts.
RestDayComponents ==
    { Component(<< "Rest", "Day" >>, << >>),
      Component(<< "Rest" >>, << "Day", "off" >>),
      Component(<< "News" >>, << "rest", Newline, "day" >>),
      Component(<< "Metcon" >>, << "AMRAP", "10", Newline, "5", "burpees" >>),
      Component(<< "Notes" >>, << "everyone", "welcome" >>),
      Component(<< >>, << "5", "mile", "run" >>),
      Component(<< >>, << "enjoy", "a", "5k" >>) }

ComponentListsOf(comps) ==
    UNION { [1..n -> comps] : n \in 0..MaxComponents }

PostTitles ==
    { << >>, << "Murph" >>, << "REST", "DAY" >>, << "Rest", "Day", "5" >> }

InitRestDay ==
    /\ fn = "is_rest_day"
    /\ fn_args \in [components : ComponentListsOf(RestDayComponents),
                    title : PostTitles]
    /\ fn_ret = << >>
    /\ IdleCanon
    /\ IdleVal
    /\ IdleTag
    /\ IdleRun

RestDayCall ==
    /\ fn = "is_rest_day"
    /\ fn_ret = << >>
    /\ fn_ret' = << IsRestDay(fn_args.components, fn_args.title) >>
    /\ UNCHANGED <<fn, fn_args, nonCallVars>>

NextRestDay == RestDayCall

SpecRestDay == InitRestDay /\ [][NextRestDay]_vars

RestDayDecided == fn = "is_rest_day" /\ fn_ret # << >>

TitleSaysRestDay == Contains(Lower(fn_args.title), RestDayPhrase)

\* The lower-cased heading+details text of the first two components.
FirstTwoText ==
    LET cs == fn_args.components
        t(i) == IF i <= Len(cs) THEN ComponentText(cs[i]) ELSE << >>
    IN  Lower(t(1) \o t(2))

\* The claim's reading of "a real workout": digits together with one of
\* AMRAP, EMOM, "for time", interval, "every".
ClaimReadsAsWorkout(text) ==
    /\ HasDigit(text)
    /\ \E k \in { << "amrap" >>, << "emom" >>, << "for", "time" >>,
                  << "interval" >>, << "every" >> } : Contains(text, k)

\* The code's reading: a workout keyword with or without digits, a calorie
\* count on the bike or the rower, or a number next to a movement word.
CodeReadsAsWorkout(text) ==
    \/ \E k \in { << "amrap" >>, << "for", "time" >>, << "emom" >>,
                  << "every" >>, << "interval" >>, << "tabata" >> } :
          Contains(text, k)
    \/ /\ \E i \in 1..Len(text) : text[i] \in {"cal", "calories"}
       /\ \E i \in 1..Len(text) : {"bike", "row"} \cap Inside(text[i]) # {}
    \/ /\ \E i \in 1..Len(text) : IsNumber(text[i])
       /\ \E i \in 1..Len(text) : MovementWords \cap Inside(text[i]) # {}

\* C16, as stated: without "rest day" in the title the result is true
\* exactly when the text of the first two components contains "rest day"
\* and does not hold digits together with AMRAP, EMOM, "for time",
\* interval or "every".
C16_Original ==
    RestDayDecided /\ ~TitleSaysRestDay =>
      (fn_ret[1] <=> /\ Contains(FirstTwoText, RestDayPhrase)
                     /\ ~ClaimReadsAsWorkout(FirstTwoText))

\* C16, corrected: without "rest day" in the title the result depends on
\* the first two components only, and is true exactly when their text
\* contains "rest day" and holds neither a workout keyword (AMRAP, "for
\* time", EMOM, every, interval, tabata; digits or not), nor a calorie word
\* with bike or row, nor a stand-alone number with a movement word.
C16_RestDayFromIntro ==
    RestDayDecided /\ ~TitleSaysRestDay =>
      /\ fn_ret[1] <=> /\ Contains(FirstTwoText, RestDayPhrase)
                       /\ ~CodeReadsAsWorkout(FirstTwoText)
      /\ \A later \in RestDayComponents :
            LET cs == fn_args.components
            IN  Len(cs) >= 2 =>
                  fn_ret[1] = IsRestDay(<< cs[1], cs[2], later >>,
                                        fn_args.title)

\* "Rest Day" in the first component and a number with a movement word,
\* but no workout keyword, in the second: not a rest day; a third component
\* follows.
C16_Witness ==
    /\ RestDayDecided
    /\ ~TitleSaysRestDay
    /\ Len(fn_args.components) = 3
    /\ Contains(FirstTwoText, RestDayPhrase)
    /\ ~ClaimReadsAsWorkout(FirstTwoText)
    /\ fn_ret[1] = FALSE

-----------------------------------------------------------------------------
(* cfa_etl/movements.py: tag_movements                                     *)

MaxFragments == 3

\* Pattern libraries (config/movements.yml as load_movement_patterns
\* compiles it): named entries in file order; a pattern is modelled by the
\* phrase it searches for.
Entry(name, patterns) == [name |-> name, patterns |-> patterns]

PatternLibraries ==
    { << Entry("clean", { << "clean" >> }),
         Entry("deadlift", { << "deadlift" >> }),
         Entry("burpee", { << "burpee" >> }),
         Entry("run", { << "run" >>, << "mile" >> }),
         Entry("row (erg)", { << "row" >> }) >>,
      << Entry("run", { << "run" >> }),
         Entry("deadlift", { << "deadlift" >> }),
         Entry("power clean", { << "power", "clean" >> }),
         Entry("clean", { << "clean" >> }),
         Entry("burpee", { << "burpee" >> }) >> }

\* any(r.search(text_lower) for r in regexes), line 37.
AnyPatternMatches(entry, text_lower) ==
    \E pat \in entry.patterns : Contains(text_lower, pat)

\* Lines 28-30.
InstructionalCleanDeadliftNever(text_lower) == FALSE

InstructionalCleanDeadlift(text_lower) ==
    /\ Contains(text_lower, << "set", "up", "like", "a", "clean" >>)
    /\ Contains(text_lower, << "deadlift", "the", "bar", "up" >>)

\* Lines 32-38: is the entry's name appended to `found`.
Found(entry, text_lower) ==
    /\ ~(entry.name \in {"clean", "deadlift"}
           /\ InstructionalCleanDeadlift(text_lower))
    /\ ~(/\ entry.name = "deadlift"
         /\ \/ Contains(text_lower, << "clean", "deadlift" >>)
            \/ Contains(text_lower, << "snatch", "deadlift" >>))
    /\ AnyPatternMatches(entry, text_lower)

EntryName(entry) == entry.name

\* tag_movements, lines 25-39.
TagMovements(text, compiled) ==
    LET text_lower == Lower(text)
        kept == SelectSeq(compiled, LAMBDA e : Found(e, text_lower))
    IN  [i \in 1..Len(kept) |-> EntryName(kept[i])]

\* The pieces the model texts are made of.
TextFragments ==
    { << "Set", "up", "like", "a", "Clean", "and", "Deadlift", "the", "bar",
         "up" >>,
      << "Set", "up", "like", "a", "Clean" >>,
      << "Deadlift", "the", "bar", "up" >>,
      << "5", "burpees" >>,
      << "Run", "400m" >>,
      << "power", "cleans" >>,
      << "snatch", "deadlift" >>,
      << "tomorrow" >> }

TextsOf(fragments) ==
    { JoinTexts(fs) : fs \in UNION { [1..n -> fragments] : n \in 0..MaxFragments } }

InitTagMovements ==
    /\ fn = "tag_movements"
    /\ fn_args \in [text : TextsOf(TextFragments), compiled : PatternLibraries]
    /\ fn_ret = << >>
    /\ IdleCanon
    /\ IdleVal
    /\ IdleTag
    /\ IdleRun

TagMovementsCall ==
    /\ fn = "tag_movements"
    /\ fn_ret = << >>
    /\ fn_ret' = << TagMovements(fn_args.text, fn_args.compiled) >>
    /\ UNCHANGED <<fn, fn_args, nonCallVars>>

NextTagMovements == TagMovementsCall

SpecTagMovements == InitTagMovements /\ [][NextTagMovements]_vars

Tagged == fn = "tag_movements" /\ fn_ret # << >>

TextHasInstruction ==
    /\ Contains(Lower(fn_args.text), << "set", "up", "like", "a", "clean" >>)
    /\ Contains(Lower(fn_args.text), << "deadlift", "the", "bar", "up" >>)

Positions(label) == { i \in 1..Len(fn_ret[1]) : fn_ret[1][i] = label }

\* The entries other than clean and deadlift with a matching pattern.
OtherMatches ==
    { i \in 1..Len(fn_args.compiled) :
        /\ fn_args.compiled[i].name \notin {"clean", "deadlift"}
        /\ \E pat \in fn_args.compiled[i].patterns :
              Contains(Lower(fn_args.text), pat) }

\* C18: for a text with both "set up like a clean" and "deadlift the bar
\* up" the result has neither "clean" nor "deadlift", and every other
\* label with a matching pattern is in it once, in the order of the
\* pattern library; nothing else is.
C18_InstructionalCueSuppressed ==
    Tagged /\ TextHasInstruction =>
      /\ Positions("clean") = {}
      /\ Positions("deadlift") = {}
      /\ Len(fn_ret[1]) = Cardinality(OtherMatches)
      /\ \A i \in OtherMatches :
            Cardinality(Positions(fn_args.compiled[i].name)) = 1
      /\ \A i, j \in OtherMatches :
            i < j => \A pi \in Positions(fn_args.compiled[i].name),
                        pj \in Positions(fn_args.compiled[j].name) : pi < pj

\* The instructional cue next to burpees and a run: both are returned, in
\* library order, and the "clean"/"deadlift" patterns, which match, are not.
C18_Witness ==
    /\ Tagged
    /\ TextHasInstruction
    /\ Cardinality(OtherMatches) >= 2
    /\ \E i \in 1..Len(fn_args.compiled) :
          /\ fn_args.compiled[i].name = "clean"
          /\ \E pat \in fn_args.compiled[i].patterns :
                Contains(Lower(fn_args.text), pat)

-----------------------------------------------------------------------------
(* cfa_etl/movements.py: movement_text_from_components                     *)

ContainsAny(text, phrases) == \E ph \in phrases : Contains(text, ph)

\* component_tag, lines 42-54.
ComponentTag(name) ==
    LET name_l == Lower(name)
    IN  IF Contains(name_l, << "floater", "strength" >>) THEN "floater_strength"
        ELSE IF ContainsWord(name_l, "strength") THEN "strength"
        ELSE IF ContainsAny(name_l, { << "assistance" >>, << "accessory" >>,
                                      << "bodybuilding" >> })
               THEN "assistance"
        ELSE IF ContainsAny(name_l, { << "metcon" >>, << "conditioning" >>,
                                      << "workout" >> })
               THEN "conditioning"
        ELSE IF ContainsAny(name_l, { << "partner" >>, << "team" >> })
               THEN "partner"
        ELSE ""

\* Lines 60-75.
IgnoredHeadings ==
    { << "training", "cycle" >>, << "upcoming" >>, << "schedule" >>,
      << "news" >>, << "notes" >>, << "recap" >>, << "tomorrow" >>,
      << "monday" >>, << "tuesday" >>, << "wednesday" >>, << "thursday" >>,
      << "friday" >>, << "saturday" >>, << "sunday" >> }

\* Lines 80-83 and 85-88.
HeadingMovementWords ==
    { "press", "squat", "deadlift", "clean", "snatch", "row", "run", "bike",
      "burpee", "swing", "pull-up", "push-up" }

HeadingWorkoutWords ==
    { << "wod" >>, << "workout" >>, << "metcon" >>, << "conditioning" >>,
      << "cash", "out" >>, << "buy", "in" >>, << "cash-out" >>,
      << "cashout" >> }

\* is_workout_component, lines 57-90.
IsWorkoutComponent(name) ==
    LET name_norm == Lower(name)
    IN  IF ContainsAny(name_norm, IgnoredHeadings) THEN FALSE
        ELSE IF ComponentTag(name) # "" THEN TRUE
        ELSE IF \E m \in HeadingMovementWords : ContainsWord(name_norm, m)
               THEN TRUE
        ELSE ContainsAny(name_norm, HeadingWorkoutWords)

\* Lines 115-130 and 139-149.
SkipMarkers ==
    { << "tomorrow" >>, << "next", "week" >>, << "next", "day" >>,
      << "next", "cycle" >>, << "tomorrows" >>, << "training", "cycle" >>,
      << "our", "new", "cycle", "starts" >>, << "monday:" >>,
      << "tuesday:" >>, << "wednesday:" >>, << "thursday:" >>,
      << "friday:" >>, << "saturday:" >>, << "sunday:" >> }

PromoBreaks ==
    { << "pull", "for", "pride" >>, << "east", "coast", "gambit" >>,
      << "iron", "maidens" >>, << "registration", "will", "open" >>,
      << "next", "level", "weightlifting" >>, << "subway", "series" >>,
      << "our", "new", "cycle", "starts" >>,
      << "training", "cycle", "dates" >>, << "goals:" >> }

\* Lines 131-137: the positions of the components the text is taken from.
Qualifies(c) ==
    IsWorkoutComponent(c.component) \/ DetailsLookLikeWorkout(c.details)

Indices(components, Keep(_)) ==
    LET F[i \in 0..Len(components)] ==
          IF i = 0 THEN << >>
          ELSE IF Keep(components[i]) THEN Append(F[i - 1], i) ELSE F[i - 1]
    IN  F[Len(components)]

AllComponents(components) == [i \in 1..Len(components) |-> i]

SourceComponents(components) ==
    LET workout_components == Indices(components, Qualifies)
    IN  IF workout_components # << >>
          THEN workout_components
          ELSE [i \in 1..Len(components) |-> i]

\* Lines 156-160: rules of underscores or hyphens and the "post ... to
\* comments" / "exposure N of M" phrases become line breaks.
SeparatorPhrases ==
    { << "___" >>, << "---" >>,
      << "post", "loads", "to", "comments" >>,
      << "post", "work", "to", "comments" >>,
      << "post", "to", "comments" >> }

MatchesAt(text, i, phrase) ==
    /\ i + Len(phrase) - 1 <= Len(text)
    /\ \A k \in 1..Len(phrase) : LowerWord(text[i + k - 1]) = phrase[k]

ExposureAt(text, i) ==
    /\ i + 3 <= Len(text)
    /\ LowerWord(text[i]) = "exposure"
    /\ IsNumber(text[i + 1])
    /\ LowerWord(text[i + 2]) = "of"
    /\ IsNumber(text[i + 3])

RECURSIVE BreakAtSeparators(_, _)
BreakAtSeparators(text, i) ==
    IF i > Len(text) THEN << >>
    ELSE IF ExposureAt(text, i)
           THEN << Newline >> \o BreakAtSeparators(text, i + 4)
    ELSE IF \E ph \in SeparatorPhrases : MatchesAt(text, i, ph)
           THEN LET ph == CHOOSE q \in SeparatorPhrases :
                            /\ MatchesAt(text, i, q)
                            /\ \A r \in SeparatorPhrases :
                                  MatchesAt(text, i, r) => Len(r) <= Len(q)
                IN  << Newline >> \o BreakAtSeparators(text, i + Len(ph))
    ELSE << text[i] >> \o BreakAtSeparators(text, i + 1)

\* detail.split("\n"), line 161.
RECURSIVE SplitLinesFrom(_, _, _)
SplitLinesFrom(text, i, cur) ==
    IF i > Len(text) THEN << cur >>
    ELSE IF text[i] = Newline
           THEN << cur >> \o SplitLinesFrom(text, i + 1, << >>)
    ELSE SplitLinesFrom(text, i + 1, Append(cur, text[i]))

SplitLines(text) == SplitLinesFrom(text, 1, << >>)

\* The first position of a word holding `w`, 0 if there is none.
FirstWith(lc, w) ==
    IF \E i \in 1..Len(lc) : w \in Inside(lc[i])
      THEN CHOOSE i \in 1..Len(lc) :
             /\ w \in Inside(lc[i])
             /\ \A j \in 1..(i - 1) : w \notin Inside(lc[j])
      ELSE 0

Before(line, i) == SubSeq(line, 1, i - 1)

\* Lines 162-197: what one line does: "skip" (continue without text),
\* "break", or "keep" with the text appended to `lines`.
LineRule(line) ==
    LET lc == Lower(line)
        post == FirstWith(lc, "post")
        Keep(text) ==
          IF text = << >> THEN [do |-> "skip", text |-> << >>]
          ELSE [do |-> "keep", text |-> text]
    IN  IF line = << >> THEN Keep(<< >>)
        ELSE IF \A i \in 1..Len(lc) : lc[i] \in {"_", "-", "--"} THEN Keep(<< >>)
        ELSE IF ContainsAny(lc, SkipMarkers) THEN Keep(<< >>)
        ELSE IF \/ ContainsWord(lc, "trivia")
                \/ lc[1] \in {"1.", "2."} /\ ContainsWord(lc, "?")
               THEN Keep(<< >>)
        ELSE IF ContainsAny(lc, PromoBreaks)
               THEN [do |-> "break", text |-> << >>]
        ELSE IF post > 0 /\ ContainsWord(lc, "comments")
               THEN Keep(Before(line, post))
        ELSE IF Contains(lc, << "weeks", "1-2" >>)
               THEN [do |-> "break", text |-> << >>]
        ELSE IF ContainsWord(lc, "exposure")
               THEN IF \E i \in 1..Len(line) : line[i] = "exposure"
                      THEN Keep(Before(line, FirstWith(line, "exposure")))
                      ELSE Keep(line)
        ELSE IF ContainsWord(lc, "whiteboard") /\ ContainsWord(lc, "yesterday")
               THEN Keep(<< >>)
        ELSE Keep(line)

\* Lines 161-197 for one component: the lines it appends, each with the
\* component and the line it comes from.
RECURSIVE KeptFrom(_, _, _)
KeptFrom(c, lines, i) ==
    IF i > Len(lines) THEN << >>
    ELSE LET r == LineRule(lines[i])
         IN  IF r.do = "break" THEN << >>
             ELSE IF r.do = "keep"
                    THEN << [comp |-> c, line |-> i, text |-> r.text] >>
                           \o KeptFrom(c, lines, i + 1)
             ELSE KeptFrom(c, lines, i + 1)

ComponentLines(c) == SplitLines(BreakAtSeparators(c.details, 1))

\* Lines 151-197: `lines`, over the source components in order.
RECURSIVE KeptLinesFrom(_, _, _)
KeptLinesFrom(components, source, k) ==
    IF k > Len(source) THEN << >>
    ELSE KeptFrom(source[k], ComponentLines(components[source[k]]), 1)
           \o KeptLinesFrom(components, source, k + 1)

KeptLines(components) ==
    KeptLinesFrom(components, SourceComponents(components), 1)

\* Lines 199-203.
MovementTextFromComponents(components) ==
    LET lines == KeptLines(components)
        source == SourceComponents(components)
    IN  IF lines # << >>
          THEN JoinTexts([i \in 1..Len(lines) |-> lines[i].text])
        ELSE IF source # << >>
          THEN JoinTexts([k \in 1..Len(source) |-> components[source[k]].details])
        ELSE << >>

\* The components whose text is in the returned blob: those the kept lines
\* come from or, when no line is kept, every source component (lines 199-203).
Contributing(components) ==
    LET lines == KeptLines(components)
        source == SourceComponents(components)
    IN  IF lines # << >>
          THEN { lines[i].comp : i \in 1..Len(lines) }
          ELSE { source[k] : k \in 1..Len(source) }

\* The details lines whose text is in the returned blob.
ContributingLines(components) ==
    LET lines == KeptLines(components)
        source == SourceComponents(components)
    IN  IF lines # << >>
          THEN { ComponentLines(components[lines[i].comp])[lines[i].line] :
                    i \in 1..Len(lines) }
          ELSE UNION { { SplitLines(components[source[k]].details)[n] :
                           n \in 1..Len(SplitLines(components[source[k]].details)) } :
                       k \in 1..Len(source) }

MovementComponents ==
    { Component(<< "Metcon" >>, << "5", "rounds", Newline, "Run", "400m" >>),
      Component(<< "Schedule" >>, << "open", "gym" >>),
      Component(<< "Schedule" >>, << "for", "time", "10", "deadlifts" >>),
      Component(<< "Metcon" >>, << "Tomorrow:", "10", "burpees" >>),
      Component(<< "Metcon" >>,
                << "Tomorrow", "we", "run", Newline, "5", "burpees" >>),
      Component(<< >>, << "hello" >>),
      Component(<< "strength" >>,
                << "5", "squat", Newline, "pull", "for", "pride", "event",
                   Newline, "10", "swing" >>),
      Component(<< "Monday:" >>, << "Next", "week", "we", "squat" >>),
      Component(<< "Metcon" >>,
                << "10", "swing", "then", "pull", "for", "pride", Newline,
                   "5", "squat" >>),
      Component(<< "Metcon" >>,
                << "5", "squat", Newline, "our", "new", "cycle", "starts",
                   Newline, "10", "swing" >>),
      Component(<< "wod" >>,
                << "5", "cleans", "post", "loads", "to", "comments",
                   "whiteboard", "yesterday" >>) }

InitMovementText ==
    /\ fn = "movement_text_from_components"
    /\ fn_args \in [components : ComponentListsOf(MovementComponents)]
    /\ fn_ret = << >>
    /\ IdleCanon
    /\ IdleVal
    /\ IdleTag
    /\ IdleRun

MovementTextCall ==
    /\ fn = "movement_text_from_components"
    /\ fn_ret = << >>
    /\ fn_ret' = << MovementTextFromComponents(fn_args.components) >>
    /\ UNCHANGED <<fn, fn_args, nonCallVars>>

NextMovementText == MovementTextCall

SpecMovementText == InitMovementText /\ [][NextMovementText]_vars

MovementTextReturned == fn = "movement_text_from_components" /\ fn_ret # << >>

Blob == fn_ret[1]

\* The headings the specification lists as ignored.
IgnoreList ==
    { << "monday" >>, << "tuesday" >>, << "wednesday" >>, << "thursday" >>,
      << "friday" >>, << "saturday" >>, << "sunday" >>, << "schedule" >>,
      << "news" >>, << "recap" >>, << "training", "cycle" >>,
      << "upcoming" >> }

HeadingIgnored(c) == ContainsAny(Lower(c.component), IgnoreList)

SomeComponentQualifies(components) ==
    \E i \in 1..Len(components) : Qualifies(components[i])

\* C19 as stated: when at least one component qualifies as workout-relevant,
\* no component with an ignored heading contributes text to the blob, whatever
\* its details contain.
C19_Original ==
    MovementTextReturned /\ SomeComponentQualifies(fn_args.components) =>
      \A i \in Contributing(fn_args.components) :
         ~HeadingIgnored(fn_args.components[i])

\* C19: when at least one component qualifies as workout-relevant, a
\* component with an ignored heading contributes text to the blob only if its
\* own details look like a workout.
C19_IgnoredHeadingNeedsWorkoutDetails ==
    MovementTextReturned /\ SomeComponentQualifies(fn_args.components) =>
      \A i \in Contributing(fn_args.components) :
         HeadingIgnored(fn_args.components[i]) =>
           DetailsLookLikeWorkout(fn_args.components[i].details)

\* An ignored heading with plain details is left out while a workout
\* component of the same post supplies the blob.
C19_Witness ==
    /\ MovementTextReturned
    /\ Blob # << >>
    /\ \E i, j \in 1..Len(fn_args.components) :
          /\ HeadingIgnored(fn_args.components[i])
          /\ ~DetailsLookLikeWorkout(fn_args.components[i].details)
          /\ i \notin Contributing(fn_args.components)
          /\ IsWorkoutComponent(fn_args.components[j].component)
          /\ j \in Contributing(fn_args.components)

\* C20 as stated: a details line that contains a future marker ("tomorrow",
\* "next week", "next day", "next cycle", "training cycle", a weekday with a
\* colon) contributes nothing to the blob: no word of the blob comes from it.
FutureMarkers ==
    { << "tomorrow" >>, << "next", "week" >>, << "next", "day" >>,
      << "next", "cycle" >>, << "training", "cycle" >>, << "monday:" >>,
      << "tuesday:" >>, << "wednesday:" >>, << "thursday:" >>,
      << "friday:" >>, << "saturday:" >>, << "sunday:" >> }

FutureLine(line) == ContainsAny(Lower(line), FutureMarkers)

C20_Original ==
    MovementTextReturned =>
      \A l \in ContributingLines(fn_args.components) : ~FutureLine(l)

\* The text a line of a component adds to the blob: what the loop appended
\* for it or, when the loop appended nothing at all, the line as it stands.
ContributionOf(components, c, t) ==
    LET lines == KeptLines(components)
    IN  IF lines # << >>
          THEN IF \E i \in 1..Len(lines) : lines[i].comp = c /\ lines[i].line = t
                 THEN (CHOOSE e \in { lines[i] : i \in 1..Len(lines) } :
                          e.comp = c /\ e.line = t).text
                 ELSE << >>
          ELSE ComponentLines(components[c])[t]

\* The promotional-phrase markers of the specification.
PromoMarkers ==
    { << "pull", "for", "pride" >>, << "east", "coast", "gambit" >>,
      << "iron", "maidens" >>, << "registration", "will", "open" >>,
      << "next", "level", "weightlifting" >>, << "subway", "series" >>,
      << "our", "new", "cycle", "starts" >>,
      << "training", "cycle", "dates" >>, << "goals:" >> }

PromoLine(line) == ContainsAny(Lower(line), PromoMarkers)

\* The words of a line that precede its first promotional marker.
BeforeMarker(line) ==
    LET lc == Lower(line)
        at == CHOOSE i \in 1..Len(lc) :
                /\ \E m \in PromoMarkers : Contains(SubSeq(lc, i, i + Len(m) - 1), m)
                /\ \A j \in 1..(i - 1) :
                      \A m \in PromoMarkers :
                         ~Contains(SubSeq(lc, j, j + Len(m) - 1), m)
    IN  SubSeq(line, 1, at - 1)

\* C21 as stated: once a line of a component holds a promotional marker, no
\* later line of the component contributes to the blob, and the triggering
\* line contributes exactly its text before the marker.
C21_Original ==
    MovementTextReturned =>
      \A k \in 1..Len(SourceComponents(fn_args.components)) :
         LET c == SourceComponents(fn_args.components)[k]
             L == ComponentLines(fn_args.components[c])
         IN  \A t \in 1..Len(L) :
                PromoLine(L[t]) /\ (\A u \in 1..(t - 1) : ~PromoLine(L[u])) =>
                  /\ \A u \in (t + 1)..Len(L) :
                        ContributionOf(fn_args.components, c, u) = << >>
                  /\ ContributionOf(fn_args.components, c, t) = BeforeMarker(L[t])

-----------------------------------------------------------------------------
(* build_canonical with the fields of each record                          *)

MaxRawPosts == 2

\* detect_format, movements.py lines 255-265.
DetectFormat(text) ==
    LET text_l == Lower(text)
    IN  IF ContainsWord(text_l, "amrap") THEN "amrap"
        ELSE IF Contains(text_l, << "for", "time" >>) THEN "for time"
        ELSE IF ContainsWord(text_l, "emom")
                  \/ Contains(text_l, << "every", "minute" >>) THEN "emom"
        ELSE IF ContainsWord(text_l, "interval")
                  \/ ContainsWord(text_l, "tabata") THEN "interval"
        ELSE ""

\* Lines 38-44: the tags of the headings, the empty tag left out.
ComponentTags(components) ==
    { ComponentTag(components[i].component) : i \in 1..Len(components) }
       \ { "" }

\* comment_counts: None, or a dict from post id to count.
NoCommentCounts == [given |-> FALSE, counts |-> << >>]

CountedIds == {1, 2}

CountValues == {0, 3}

CommentCountMaps ==
    { NoCommentCounts } \cup
    { [given |-> TRUE, counts |-> f] :
         f \in UNION { [S -> CountValues] : S \in SUBSET CountedIds } }

\* `if comment_counts`: None and the empty dict are both false.
Truthy(comment_counts) ==
    comment_counts.given /\ DOMAIN comment_counts.counts # {}

\* comment_counts.get(id, 0)
GetCount(comment_counts, id) ==
    IF id \in DOMAIN comment_counts.counts
      THEN comment_counts.counts[id] ELSE 0

WithKey(rec, key, value) ==
    [k \in DOMAIN rec \cup {key} |-> IF k = key THEN value ELSE rec[k]]

\* Lines 28-29: the rest-day branch sets comment_count only under
\* `if comment_counts`.
RestDayCommentCount(base, comment_counts) ==
    IF Truthy(comment_counts)
      THEN WithKey(base, "comment_count", GetCount(comment_counts, base.id))
      ELSE base

\* Lines 26-27: the fields of a rest-day record.
RestDayFieldsKeepTags(base) ==
    [id |-> base.id, date |-> base.date, title |-> base.title,
     components |-> base.components, movements |-> << >>, format |-> "",
     component_tags |-> ComponentTags(base.components), is_rest_day |-> TRUE,
     seq_no |-> None, workout_no |-> None, milestones |-> << >>]

RestDayFields(base) ==
    [id |-> base.id, date |-> base.date, title |-> base.title,
     components |-> base.components, movements |-> << >>, format |-> "",
     component_tags |-> {}, is_rest_day |-> TRUE,
     seq_no |-> None, workout_no |-> None, milestones |-> << >>]

\* Lines 25-54: the record appended for one post. process_post hands over
\* id, date, title and the parsed components.
PostRecord(post, comment_counts, compiled) ==
    IF IsRestDay(post.components, post.title)
      THEN RestDayCommentCount(RestDayFields(post), comment_counts)
      ELSE LET movement_text == MovementTextFromComponents(post.components)
               movement_source == post.title \o movement_text
           IN  [id |-> post.id, date |-> post.date, title |-> post.title,
                components |-> post.components,
                movements |-> TagMovements(Lower(movement_source), compiled),
                format |-> DetectFormat(Lower(movement_source)),
                component_tags |-> ComponentTags(post.components),
                is_rest_day |-> FALSE,
                comment_count |-> IF Truthy(comment_counts)
                                    THEN GetCount(comment_counts, post.id)
                                    ELSE 0,
                seq_no |-> None, workout_no |-> None, milestones |-> << >>]

\* Lines 59-66, the whole loop: the records numbered from position i on.
RECURSIVE NumberFrom(_, _, _)
NumberFrom(recs, i, wn) ==
    IF i > Len(recs) THEN << >>
    ELSE << NumberedRecord(recs[i], i, wn) >>
           \o NumberFrom(recs, i + 1, AdvanceWorkoutNo(recs[i], wn))

\* Lines 68-73.
WithMilestones(recs) ==
    LET total_workouts == Cardinality({ i \in 1..Len(recs) : ~recs[i].is_rest_day })
    IN  [i \in 1..Len(recs) |->
           IF IsMilestone(recs[i].workout_no, MilestoneTargets(total_workouts))
             THEN [recs[i] EXCEPT
                     !.milestones = Append(@, MilestoneLabel(recs[i].workout_no))]
             ELSE recs[i]]

\* build_canonical, lines 17-75.
BuildCanonical(posts, comment_counts, compiled) ==
    LET built == [i \in 1..Len(posts) |->
                    PostRecord(posts[i], comment_counts, compiled)]
    IN  WithMilestones(NumberFrom(SortCanonical(built), 1, 0))

RecordTitles == { << "Murph" >>, << "My", "REST", "DAY" >> }

RecordComponentLists ==
    { << >>,
      << Component(<< "Rest", "Day" >>, << "everyone", "welcome" >>) >>,
      << Component(<< "strength" >>, << "5", "squat" >>),
         Component(<< "Metcon" >>, << "for", "time", Newline, "Run", "400m" >>) >> }

RecordPosts ==
    [id : CountedIds, date : {1}, title : RecordTitles,
     components : RecordComponentLists]

InitBuild ==
    /\ fn = "build_canonical"
    /\ fn_args \in [raw_posts : UNION { [1..n -> RecordPosts] : n \in 0..MaxRawPosts },
                    comment_counts : CommentCountMaps,
                    compiled : PatternLibraries]
    /\ fn_ret = << >>
    /\ IdleCanon
    /\ IdleVal
    /\ IdleTag
    /\ IdleRun

BuildCall ==
    /\ fn = "build_canonical"
    /\ fn_ret = << >>
    /\ fn_ret' = << BuildCanonical(fn_args.raw_posts, fn_args.comment_counts,
                                   fn_args.compiled) >>
    /\ UNCHANGED <<fn, fn_args, nonCallVars>>

NextBuild == BuildCall

SpecBuild == InitBuild /\ [][NextBuild]_vars

Built == fn = "build_canonical" /\ fn_ret # << >>

Returned == fn_ret[1]

TitleHasRestDay(rec) == Contains(Lower(rec.title), << "rest", "day" >>)

\* C15: every record of a post whose title holds "rest day" in any letter
\* case, whatever its components, has is_rest_day true, no movements, the
\* empty format, no component_tags and no workout_no.
C15_RestDayTitleRecord ==
    Built =>
      \A i \in 1..Len(Returned) :
         TitleHasRestDay(Returned[i]) =>
           /\ Returned[i].is_rest_day = TRUE
           /\ Returned[i].movements = << >>
           /\ Returned[i].format = ""
           /\ Returned[i].component_tags = {}
           /\ Returned[i].workout_no = None

\* A post titled "My REST DAY" whose body is a tagged, timed workout.
C15_Witness ==
    /\ Built
    /\ \E i \in 1..Len(Returned) :
          /\ TitleHasRestDay(Returned[i])
          /\ ComponentTags(Returned[i].components) # {}
          /\ DetailsLookLikeWorkout(Returned[i].components[1].details)
          /\ Returned[i].is_rest_day

\* C17 as stated: every returned record, rest day or not, has a
\* comment_count >= 0 that is the map's value for the record's id, and 0 when
\* no map is supplied or the map has no entry for the id.
C17_Original ==
    Built =>
      \A i \in 1..Len(Returned) :
         /\ "comment_count" \in DOMAIN Returned[i]
         /\ Returned[i].comment_count >= 0
         /\ Returned[i].comment_count =
              IF /\ fn_args.comment_counts.given
                 /\ Returned[i].id \in DOMAIN fn_args.comment_counts.counts
                THEN fn_args.comment_counts.counts[Returned[i].id]
                ELSE 0

-----------------------------------------------------------------------------
(* cfa_etl/aggregates.py: aggregate                                        *)

MaxAggRecords == 2

TopMovementsLimit == 100

TopPairsLimit == 200

\* A date is << >> (empty) or << year, month, day >>, the fields of the text
\* "YYYY-MM-DD"; date[:4] is its year field. A movement is the rank of its
\* label in string order, so that sorted() is the ascending order.
AggDates ==
    { << >>, << 2019, 2, 28 >>, << 2020, 2, 28 >>, << 2020, 2, 30 >> }

AggMovementLists ==
    { << >>, << 2, 1 >>, << 1, 1 >>, << 3, 1, 3 >> }

AggRecords == [date : AggDates, movements : AggMovementLists]

DaysInMonth(y, m) ==
    IF m = 2
      THEN IF (y % 4 = 0 /\ y % 100 # 0) \/ y % 400 = 0 THEN 29 ELSE 28
      ELSE IF m \in {4, 6, 9, 11} THEN 30 ELSE 31

\* datetime.fromisoformat(date) returns a value (does not raise).
IsoParses(date) ==
    /\ date # << >>
    /\ date[2] \in 1..12
    /\ date[3] \in 1..DaysInMonth(date[1], date[2])

\* dt_obj.strftime("%A")
Weekday(date) ==
    LET t == << 0, 3, 2, 5, 0, 3, 5, 1, 4, 6, 2, 4 >>
        y == IF date[2] < 3 THEN date[1] - 1 ELSE date[1]
        w == (y + (y \div 4) - (y \div 100) + (y \div 400) + t[date[2]] + date[3]) % 7
    IN  << "Sunday", "Monday", "Tuesday", "Wednesday", "Thursday", "Friday",
           "Saturday" >>[w + 1]

\* counter[key] += 1
Inc(counter, key) ==
    [k \in DOMAIN counter \cup {key} |->
        IF k \in DOMAIN counter
          THEN IF k = key THEN counter[k] + 1 ELSE counter[k]
          ELSE 1]

\* counter[outer][key] += 1 on a defaultdict of Counters.
IncIn(counters, outer, key) ==
    [o \in DOMAIN counters \cup {outer} |->
        IF o = outer
          THEN Inc(IF o \in DOMAIN counters THEN counters[o] ELSE << >>, key)
          ELSE counters[o]]

\* A Counter whose order of first insertion matters (most_common).
IncOrdered(counter, key) ==
    [keys |-> IF key \in DOMAIN counter.n
                THEN counter.keys ELSE Append(counter.keys, key),
     n |-> Inc(counter.n, key)]

EmptyCounters ==
    [movements_days |-> [keys |-> << >>, n |-> << >>],
     movement_pairs |-> [keys |-> << >>, n |-> << >>],
     yearly_counts |-> << >>, weekday_counts |-> << >>,
     movement_yearly |-> << >>, movement_weekday |-> << >>,
     movement_monthly |-> << >>, movement_calendar |-> << >>]

\* Lines 27-35.
DateStep(acc, date) ==
    IF date = << >> THEN acc
    ELSE LET counted == [acc EXCEPT !.yearly_counts = Inc(@, date[1])]
         IN  IF IsoParses(date)
               THEN [counted EXCEPT !.weekday_counts = Inc(@, Weekday(date))]
               ELSE counted

\* Lines 41-59, the body of `for m in movs`.
MovementStep(acc, date, m) ==
    LET counted == [acc EXCEPT !.movements_days = IncOrdered(@, m)]
        yearly == IF date = << >> THEN counted
                  ELSE [counted EXCEPT !.movement_yearly = IncIn(@, m, date[1])]
    IN  IF IsoParses(date)
          THEN [yearly EXCEPT
                  !.movement_weekday = IncIn(@, m, Weekday(date)),
                  !.movement_monthly = IncIn(@, m, << date[1], date[2] >>),
                  !.movement_calendar =
                      [o \in DOMAIN @ \cup {m} |->
                          IF o = m
                            THEN Append(IF o \in DOMAIN @ THEN @[o] ELSE << >>,
                                        [day |-> date[3], date |-> date])
                            ELSE @[o]]]
          ELSE yearly

RECURSIVE MovementLoop(_, _, _, _)
MovementLoop(acc, date, movs, j) ==
    IF j > Len(movs) THEN acc
    ELSE MovementLoop(MovementStep(acc, date, movs[j]), date, movs, j + 1)

\* set(item.get("movements") or [])
MovementSet(item) == { item.movements[j] : j \in 1..Len(item.movements) }

\* sorted(movs)
RECURSIVE Ascending(_)
Ascending(S) ==
    IF S = {} THEN << >>
    ELSE LET least == CHOOSE x \in S : \A y \in S : x <= y
         IN  << least >> \o Ascending(S \ {least})

\* itertools.combinations(seq, 2), in its order.
CombinationsInGivenOrder(movs) ==
    LET n == Len(movs)
        at(i, j) == (i - 1) * n + j
        all == [k \in 1..(n * n) |-> << ((k - 1) \div n) + 1, ((k - 1) % n) + 1 >>]
        picked == SelectSeq(all, LAMBDA ij : ij[1] < ij[2])
    IN  [k \in 1..Len(picked) |-> << movs[picked[k][1]], movs[picked[k][2]] >>]

\* Line 61: the pairs of sorted(movs).
PairsUnsorted(movs) == CombinationsInGivenOrder(movs)

Pairs(movs) == CombinationsInGivenOrder(Ascending({ movs[j] : j \in 1..Len(movs) }))

RECURSIVE PairLoop(_, _, _)
PairLoop(acc, pairs, j) ==
    IF j > Len(pairs) THEN acc
    ELSE PairLoop([acc EXCEPT !.movement_pairs = IncOrdered(@, pairs[j])],
                  pairs, j + 1)

\* The orders in which `for m in movs` can visit a set of strings: it follows
\* the hashes of the strings, which change from one interpreter run to the next.
IterationOrders(S) ==
    { f \in [1..Cardinality(S) -> S] : \A x \in S : \E i \in DOMAIN f : f[i] = x }

\* One visiting order for each record.
RECURSIVE OrdersOf(_)
OrdersOf(canonical_) ==
    IF canonical_ = << >> THEN { << >> }
    ELSE { << o >> \o rest : o \in IterationOrders(MovementSet(Head(canonical_))),
                             rest \in OrdersOf(Tail(canonical_)) }

\* Line 37: what `for m in movs` visits: the set, each movement once.
VisitedWithRepeats(item, order) == item.movements

Visited(item, order) == order

\* Lines 26-62 for one record; `order` is the order the set is visited in.
ItemStep(acc, item, order) ==
    PairLoop(MovementLoop(DateStep(acc, item.date), item.date,
                          Visited(item, order), 1),
             Pairs(Visited(item, order)), 1)

RECURSIVE ItemLoop(_, _, _, _)
ItemLoop(acc, canonical_, orders, i) ==
    IF i > Len(canonical_) THEN acc
    ELSE ItemLoop(ItemStep(acc, canonical_[i], orders[i]), canonical_, orders, i + 1)

\* Counter.most_common(n): highest count first, equal counts in the order of
\* first insertion, the first n of them.
MostCommon(counter, n) ==
    LET idx_ == [i \in 1..Len(counter.keys) |-> i]
        sorted == SortSeq(idx_, LAMBDA i, j :
                     \/ counter.n[counter.keys[i]] > counter.n[counter.keys[j]]
                     \/ /\ counter.n[counter.keys[i]] = counter.n[counter.keys[j]]
                        /\ i < j)
        top == SubSeq(sorted, 1, Min(n, Len(sorted)))
    IN  [k \in 1..Len(top) |->
           [key |-> counter.keys[top[k]], count |-> counter.n[counter.keys[top[k]]]]]

\* Lines 64-87.
Report(acc) ==
    LET top_movements == MostCommon(acc.movements_days, TopMovementsLimit)
        top_pairs == MostCommon(acc.movement_pairs, TopPairsLimit)
    IN  [top_movements |->
            [k \in 1..Len(top_movements) |->
               [movement |-> top_movements[k].key, days |-> top_movements[k].count]],
         top_pairs |->
            [k \in 1..Len(top_pairs) |->
               [a |-> top_pairs[k].key[1], b |-> top_pairs[k].key[2],
                count |-> top_pairs[k].count]],
         yearly_counts |-> acc.yearly_counts,
         weekday_counts |-> acc.weekday_counts,
         movement_yearly |-> acc.movement_yearly,
         movement_weekday |-> acc.movement_weekday,
         movement_monthly |-> acc.movement_monthly,
         movement_calendar |-> acc.movement_calendar]

\* aggregate, lines 16-87.
Aggregate(canonical_, orders) == Report(ItemLoop(EmptyCounters, canonical_, orders, 1))

InitAggregate ==
    /\ fn = "aggregate"
    /\ fn_args \in [canonical : UNION { [1..n -> AggRecords] : n \in 0..MaxAggRecords }]
    /\ fn_ret = << >>
    /\ IdleCanon
    /\ IdleVal
    /\ IdleTag
    /\ IdleRun

\* One run of aggregate over the records; a second run is a second
\* interpreter, with its own string hashes.
AggregateCall ==
    /\ fn = "aggregate"
    /\ Len(fn_ret) < 2
    /\ \E orders \in OrdersOf(fn_args.canonical) :
          fn_ret' = Append(fn_ret, Aggregate(fn_args.canonical, orders))
    /\ UNCHANGED <<fn, fn_args, nonCallVars>>

NextAggregate == AggregateCall

SpecAggregate == InitAggregate /\ [][NextAggregate]_vars

Aggregated == fn = "aggregate" /\ fn_ret # << >>

Runs == 1..Len(fn_ret)

Given == fn_args.canonical

RecordsWith(m) == { i \in 1..Len(Given) : m \in MovementSet(Given[i]) }

RECURSIVE Total(_)
Total(counter) ==
    IF DOMAIN counter = {} THEN 0
    ELSE LET k == CHOOSE x \in DOMAIN counter : TRUE
         IN  counter[k] + Total([x \in DOMAIN counter \ {k} |-> counter[x]])

AllDatesParse == \A i \in 1..Len(Given) : IsoParses(Given[i].date)

\* C22: when every record has a parseable ISO date, each movement of
\* top_movements has days equal to the sum of its per-year counts and to the
\* number of records that contain it, a repeat inside a record counting once.
C22_YearlySumsToDays ==
    Aggregated /\ AllDatesParse =>
      \A r \in Runs : \A k \in 1..Len(fn_ret[r].top_movements) :
         LET e == fn_ret[r].top_movements[k]
         IN  /\ e.movement \in DOMAIN fn_ret[r].movement_yearly
             /\ Total(fn_ret[r].movement_yearly[e.movement]) = e.days
             /\ e.days = Cardinality(RecordsWith(e.movement))

\* Two dated records of different years, one repeating a movement.
C22_Witness ==
    /\ Aggregated
    /\ AllDatesParse
    /\ Len(Given) = 2
    /\ Given[1].date[1] # Given[2].date[1]
    /\ Given[1].movements = << 1, 1 >>
    /\ \E k \in 1..Len(fn_ret[1].top_movements) :
          /\ fn_ret[1].top_movements[k].movement = 1
          /\ fn_ret[1].top_movements[k].days = 2

\* C23: every top_pairs entry has a < b, no unordered pair appears under two
\* keys, and its count is the number of records holding both movements.
C23_PairsSortedAndCounted ==
    Aggregated =>
      \A r \in Runs :
         LET tp == fn_ret[r].top_pairs
         IN  /\ \A k \in 1..Len(tp) :
                   /\ tp[k].a < tp[k].b
                   /\ tp[k].count =
                        Cardinality(RecordsWith(tp[k].a) \cap RecordsWith(tp[k].b))
             /\ \A k, l \in 1..Len(tp) :
                   k # l => {tp[k].a, tp[k].b} # {tp[l].a, tp[l].b}

\* A pair listed out of order in one record and shared by two records.
C23_Witness ==
    /\ Aggregated
    /\ Len(Given) = 2
    /\ Given[1].movements = << 3, 1, 3 >>
    /\ Given[2].movements = << 3, 1, 3 >>
    /\ Given[1].date # Given[2].date
    /\ fn_ret[1].top_pairs = << [a |-> 1, b |-> 3, count |-> 2] >>

Parsed == { i \in 1..Len(Given) : IsoParses(Given[i].date) }

Dated == { i \in 1..Len(Given) : Given[i].date # << >> }

DaysOf(rep, m) ==
    LET ks == { k \in 1..Len(rep.top_movements) : rep.top_movements[k].movement = m }
    IN  IF ks = {} THEN 0 ELSE rep.top_movements[CHOOSE k \in ks : TRUE].days

\* Every record, dated or not, counts in the movement day-frequency.
UndatedStillCounted(rep) ==
    \A i \in 1..Len(Given) : \A m \in MovementSet(Given[i]) :
       DaysOf(rep, m) = Cardinality(RecordsWith(m))

\* C24 as stated: the year totals and the weekday totals are both taken over
\* exactly the records whose date parses; a record with an empty or
\* unparseable date adds to neither and still counts for the movements.
C24_Original ==
    Aggregated =>
      \A r \in Runs :
         /\ Total(fn_ret[r].yearly_counts) = Cardinality(Parsed)
         /\ Total(fn_ret[r].weekday_counts) = Cardinality(Parsed)
         /\ UndatedStillCounted(fn_ret[r])

\* C25 as stated: top_movements has at most 100 entries, in non-increasing
\* order of days, and two runs over the same records return the same list.
C25_Original ==
    Aggregated =>
      /\ \A r \in Runs :
            LET tm == fn_ret[r].top_movements
            IN  /\ Len(tm) <= 100
                /\ \A k \in 1..(Len(tm) - 1) : tm[k].days >= tm[k + 1].days
      /\ \A r, q \in Runs : fn_ret[r].top_movements = fn_ret[q].top_movements

-----------------------------------------------------------------------------
(* cfa_etl/named_workouts.py: build_named_workouts                         *)

MaxNamedRecords == 2

\* HERO_NAMES and GIRL_NAMES, in list order, cut to the names of the model.
HeroNames == << "murph", "dt", "murphy" >>

GirlNames == << "fran" >>

\* name.title(), line 104.
NameTitle(name) ==
    CASE name = "murph" -> "Murph"
      [] name = "dt" -> "Dt"
      [] name = "murphy" -> "Murphy"
      [] name = "fran" -> "Fran"

\* The string order of the titled names, line 196.
NameRank(key) ==
    CASE key = "Dt" -> 1
      [] key = "Fran" -> 2
      [] key = "Murph" -> 3
      [] key = "Murphy" -> 4

\* re.sub(r"[^a-z0-9]+", " ", word) on one lower-case word.
NormWord(w) ==
    CASE w = "murph!" -> "murph"
      [] w = "tomorrow:" -> "tomorrow"
      [] w = "-" -> ""
      [] OTHER -> w

\* _normalize_name, lines 108-109.
NormalizeName(text) ==
    SelectSeq([i \in 1..Len(text) |-> NormWord(LowerWord(text[i]))],
              LAMBDA w : w # "")

\* pat.search(title_l) for \bname\b, lines 102-103 and 150.
TitleHit(title_l, name) ==
    \E i \in 1..Len(title_l) : NormWord(title_l[i]) = name

\* Lines 118-126.
Ignores ==
    { << "training", "cycle" >>, << "upcoming" >>, << "schedule" >>,
      << "news" >>, << "notes" >>, << "recap" >>, << "tomorrow" >> }

\* Lines 130-137: the lower-cased headings that are kept.
ComponentNames(item) ==
    SelectSeq([i \in 1..Len(item.components) |-> Lower(item.components[i].component)],
              LAMBDA name : name # << >> /\ ~ContainsAny(name, Ignores))

\* movements.py lines 236 and 245.
RepSchemeKeywords ==
    { << "amrap" >>, << "for", "time" >>, << "emom" >>, << "every" >>,
      << "round" >>, << "rounds" >>, << "minutes" >>, << "minute" >> }

RepSchemeLine(line) ==
    /\ line # << >>
    /\ ContainsAny(Lower(line), RepSchemeKeywords) \/ HasDigit(line)

\* extract_rep_scheme, movements.py lines 230-252: "heading: line" for each
\* line that looks like a rep scheme, joined by " | ".
RECURSIVE RepSchemeLines(_, _)
RepSchemeLines(components, i) ==
    IF i > Len(components) THEN << >>
    ELSE LET lines == SelectSeq(SplitLines(components[i].details), RepSchemeLine)
         IN  [k \in 1..Len(lines) |-> components[i].component \o lines[k]]
               \o RepSchemeLines(components, i + 1)

ExtractRepScheme(components) ==
    LET lines == RepSchemeLines(components, 1)
    IN  IF lines # << >>
          THEN JoinTexts([k \in 1..Len(lines) |->
                            IF k = 1 THEN lines[k] ELSE << "|" >> \o lines[k]])
        ELSE IF components # << >>
          THEN components[1].component \o components[1].details
        ELSE << >>

\* Lines 155-160 and 172-177.
MurphSignature(summary) ==
    LET summary_l == Lower(summary)
    IN  \/ /\ ContainsWord(summary_l, "pull")
           /\ ContainsWord(summary_l, "push")
           /\ ContainsWord(summary_l, "squat")
        \/ Contains(summary_l, << "1", "mile" >>)
        \/ ContainsWord(summary_l, "1-mile")

\* Lines 140-145: the entry of a record; the link tells the records apart.
HitEntry(item, i) ==
    [link |-> i, date |-> item.date, title |-> item.title,
     summary |-> ExtractRepScheme(item.components)]

CompHit(item, name) ==
    \E k \in 1..Len(ComponentNames(item)) :
       NormalizeName(ComponentNames(item)[k]) = << name >>

\* Lines 148-162 and 170-179: the record is appended to hero_hits[name].
HeroHit(item, name) ==
    LET title_hit == TitleHit(Lower(item.title), name)
        signed == MurphSignature(ExtractRepScheme(item.components))
    IN  /\ title_hit \/ CompHit(item, name)
        /\ name = "murph" /\ ~title_hit => signed
        /\ name = "murph" => signed

\* Lines 165-168 and 180-181.
GirlHit(item, name) ==
    TitleHit(Lower(item.title), name) \/ CompHit(item, name)

\* The entries of the records that satisfy Hit, in list order.
EntriesWhere(canonical_, Hit(_)) ==
    LET picked == SelectSeq([i \in 1..Len(canonical_) |-> i],
                            LAMBDA i : Hit(canonical_[i]))
    IN  [k \in 1..Len(picked) |-> HitEntry(canonical_[picked[k]], picked[k])]

\* Lines 198-211: the records with "murph" anywhere in the title replace the
\* "Murph" list when there is one.
MurphEntries(canonical_) ==
    EntriesWhere(canonical_, LAMBDA item : ContainsWord(Lower(item.title), "murph"))

HeroEntries(canonical_, name) ==
    IF name = "murph" /\ MurphEntries(canonical_) # << >>
      THEN MurphEntries(canonical_)
      ELSE EntriesWhere(canonical_, LAMBDA item : HeroHit(item, name))

GirlEntries(canonical_, name) ==
    EntriesWhere(canonical_, LAMBDA item : GirlHit(item, name))

\* build_list, lines 183-196.
BuildList(names, EntriesOf(_)) ==
    LET hit == SelectSeq(names, LAMBDA name : EntriesOf(name) # << >>)
        Data(name) ==
          LET entries_sorted == SortSeq(EntriesOf(name),
                                        LAMBDA e, f : e.date > f.date)
          IN  [name |-> NameTitle(name), count |-> Len(entries_sorted),
               latest_date |-> entries_sorted[1].date,
               latest_link |-> entries_sorted[1].link,
               occurrences |-> entries_sorted]
    IN  SortSeq([k \in 1..Len(hit) |-> Data(hit[k])],
                LAMBDA x, y : \/ x.count > y.count
                              \/ /\ x.count = y.count
                                 /\ NameRank(x.name) < NameRank(y.name))

\* build_named_workouts, lines 112-213.
BuildNamedWorkouts(canonical_) ==
    [heroes |-> BuildList(HeroNames, LAMBDA name : HeroEntries(canonical_, name)),
     girls |-> BuildList(GirlNames, LAMBDA name : GirlEntries(canonical_, name))]

NamedTitles == { << "WOD" >>, << "Murph" >>, << "Murphs" >>, << "Fran" >> }

NamedComponentLists ==
    { << Component(<< "Tomorrow:", "Murph!" >>, << "promo", "copy" >>),
         Component(<< "Workout" >>, << "5", "rounds" >>) >>,
      << Component(<< "Murph!" >>,
                   << "1", "Mile", "Run", Newline, "100", "pull-ups", Newline,
                      "100", "push-ups", Newline, "100", "squats" >>) >>,
      << Component(<< "Murph" >>, << "5", "rounds" >>) >>,
      << Component(<< "Notes" >>, << "Fran" >>),
         Component(<< "Fran" >>, << "for", "time" >>) >> }

NamedRecords ==
    [date : {1, 2}, title : NamedTitles, components : NamedComponentLists]

InitNamed ==
    /\ fn = "build_named_workouts"
    /\ fn_args \in [canonical : UNION { [1..n -> NamedRecords] : n \in 0..MaxNamedRecords }]
    /\ fn_ret = << >>
    /\ IdleCanon
    /\ IdleVal
    /\ IdleTag
    /\ IdleRun

NamedCall ==
    /\ fn = "build_named_workouts"
    /\ fn_ret = << >>
    /\ fn_ret' = << BuildNamedWorkouts(fn_args.canonical) >>
    /\ UNCHANGED <<fn, fn_args, nonCallVars>>

NextNamed == NamedCall

SpecNamed == InitNamed /\ [][NextNamed]_vars

Named == fn = "build_named_workouts" /\ fn_ret # << >>

NamedGiven == fn_args.canonical

\* Record i of the list is among the occurrences listed under the name.
ListedIn(list, name, i) ==
    \E k \in 1..Len(list) :
       /\ list[k].name = NameTitle(name)
       /\ \E o \in 1..Len(list[k].occurrences) : list[k].occurrences[o].link = i

Listed(name, i) ==
    ListedIn(fn_ret[1].heroes, name, i) \/ ListedIn(fn_ret[1].girls, name, i)

Headings(item) ==
    { Lower(item.components[k].component) : k \in 1..Len(item.components) }

Administrative(heading) == ContainsAny(heading, Ignores)

\* The title does not match the name, a heading mentions it, and every
\* heading that mentions it is administrative.
OnlyAdministrativeMention(item, name) ==
    /\ ~TitleHit(Lower(item.title), name)
    /\ \E h \in Headings(item) : ContainsWord(h, name)
    /\ \A h \in Headings(item) : ContainsWord(h, name) => Administrative(h)

\* C26 as stated: a record whose title does not match a benchmark name and
\* whose only heading mentioning the name is administrative is never listed
\* as an occurrence of that name.
C26_Original ==
    Named =>
      \A i \in 1..Len(NamedGiven) :
         \A name \in {"murph", "dt", "murphy", "fran"} :
            OnlyAdministrativeMention(NamedGiven[i], name) => ~Listed(name, i)

\* C27 as stated: a record is listed under "Murph" exactly when the
\* whole-word pattern matches its title, or a non-administrative heading
\* normalizes to "murph" and the summary shows the signature; the other
\* records of the list play no part.
C27_Original ==
    Named =>
      \A i \in 1..Len(NamedGiven) :
         Listed("murph", i) <=>
           \/ TitleHit(Lower(NamedGiven[i].title), "murph")
           \/ /\ CompHit(NamedGiven[i], "murph")
              /\ MurphSignature(ExtractRepScheme(NamedGiven[i].components))

-----------------------------------------------------------------------------
(* Claims about the ceiling of the rate-limit delay                        *)

\* The hint the server sent with the failure, 0 when it sent none.
HintSent(err) ==
    IF err.retry_after_s = NoHint THEN 0 ELSE err.retry_after_s

\* C28 as stated: after a rate-limit failure the delay never exceeds 5
\* minutes plus at most 1 second of jitter, for every attempt number and
\* every retry-after hint.
C28_Original ==
    (Slept /\ IsRateLimit(fn_args.err)) => Delay <= 300 * Second + Second

\* C28 as amended: after a rate-limit failure the delay never exceeds the
\* larger of 5 minutes and four times the retry-after hint the server sent,
\* plus at most 1 second of jitter.
C28_CeilingFollowsHint ==
    (Slept /\ IsRateLimit(fn_args.err)) =>
       Delay <= Max(300 * Second, 4 * HintSent(fn_args.err)) + Second

\* A rate-limit failure with a hint of 100 s: the delay is 400 s and more,
\* above the 5 minutes of the exponential part.
C28_Witness ==
    /\ Slept
    /\ IsRateLimit(fn_args.err)
    /\ fn_args.err.retry_after_s = 100 * Second
    /\ Delay >= 400 * Second
    /\ Delay > 300 * Second + Second

------------------------------------------------------------------------

-----------------------------------------------------------------------------
(* Claims about --resume                                                   *)

Resuming == r_args.resume /\ ~r_args.overwrite

\* What this run has written to args.out so far: an id and a newline for
\* every record counted or about to be counted, an id for the worker
\* between lines 118 and 119.
WrittenByRun ==
    2 * counts.llm_written
      + 2 * Cardinality({ f \in Futures : fut[f] \in {"count", "counting"} })
      + Cardinality({ f \in Futures : fut[f] = "append_newline" })

\* args.out as the workers found it.
StartLog == SubSeq(out_log, 1, Len(out_log) - WrittenByRun)

LoggedAtStart == IdsOf(StartLog)

\* The cache files the workers found: the run has not written them.
CachedAtStart == { pid \in cache : cache_writes[pid] = 0 }

IsCandidate(pid) == \E f \in Futures : Pid(f) = pid

CalledPosts == { Pid(f) : f \in llm_calls }

\* A finished run has in its log every candidate found only in the cache.
CacheOnlyLogged ==
    (Finished /\ Resuming) =>
       \A pid \in CachedAtStart \ LoggedAtStart :
          IsCandidate(pid) => pid \in IdsOf(out_log)

Occurrences(pid, log) == Cardinality({ i \in 1..Len(log) : log[i] = pid })

\* The run has added at most one record of the post when the log had none,
\* and no record otherwise.
AtMostOneNew(pid) ==
    Occurrences(pid, out_log) <=
       (IF Occurrences(pid, StartLog) > 0
          THEN Occurrences(pid, StartLog) ELSE 1)

\* C30 as stated: with --resume a run appends at most one record per post id
\* and none for an id already in the log when the run started, for any
\* candidate list and any interleaving of the workers.
C30_Original ==
    r_args.resume => \A pid \in PostIdsOfRun : AtMostOneNew(pid)

\* C30 as amended: the same, for a candidate list in which no id repeats or
\* a run with a single worker; the membership test and the insertion are
\* separate steps.
C30_OneRecordPerId ==
    (r_args.resume /\ (NoDuplicates(candidates) \/ Workers = 1)) =>
       \A pid \in PostIdsOfRun : AtMostOneNew(pid)

\* A finished --resume run of two workers over posts 1 and 2, post 1 in the
\* log from the start: the run added the record of post 2 and nothing else.
C30_Witness ==
    /\ Finished
    /\ r_args.resume
    /\ Workers = 2
    /\ candidates = << 1, 2 >>
    /\ StartLog = << 1, NL >>
    /\ counts.llm_written = 1
    /\ Records(out_log) = << 1, 2 >>

====
